---- MODULE Spec2Model ----
(***************************************************************************)
(* Model of the pass-constraint and scheduling engine of                   *)
(* satnogs-auto-scheduler: the interval overlap test, the greedy ordered   *)
(* scheduler, the constraint pipeline and the priority classifier.         *)
(*                                                                         *)
(* Times are integers on a discrete grid (one unit = one tick of the       *)
(* datetime arithmetic); a pass is a record with rise time tr and set time *)
(* ts, as the dictionaries of the source.  Priorities and scores are exact *)
(* rationals (floating-point rounding is not modelled).  The propagator    *)
(* (ephem) is external: a satellite is given by its azimuth at each        *)
(* instant, and find_passes by the passes it may return.                   *)
(*                                                                         *)
(* Each part of the program has its own specification (SpecOverlap,        *)
(* SpecScheduler, SpecRerun, SpecCalls, SpecMain, SpecClassifier,          *)
(* SpecPipeline, SpecAzWindow, SpecEfficiency, SpecFindPasses,             *)
(* SpecTransmitters, SpecSearch, SpecObservations, SpecBatch, SpecCache,   *)
(* SpecSweep); the variables of the other parts stay idle in it.           *)
(* SpecSweep runs the sweep loops one iteration at a time, under weak      *)
(* fairness, for their termination.  The servers of SatNOGS DB and Network *)
(* are external too: a call of the client is given by the entries, pages   *)
(* and answers the server may send.                                        *)
(***************************************************************************)
EXTENDS Integers, Sequences, FiniteSets, TLC

VARIABLES
    \* ---- overlap() called on its own
    ov_satpass,          \* the candidate handed to overlap
    ov_scheduledpasses,  \* the reservations handed to overlap
    ov_wait,             \* wait_time_seconds
    ov_result,           \* the returned overlap_found
    ov_pc,               \* "call" before the call, "done" after it
    \* ---- ordered_scheduler and the main script's two runs of it
    prioritypasses,      \* the priority bucket (main script)
    normalpasses,        \* the normal bucket (main script)
    passes,              \* the list ordered_scheduler iterates
    scheduledpasses,     \* the reservation list, appended in place
    wait_time_seconds,   \* the guard time
    idx,                 \* number of passes the for loop has consumed
                         \* (in SpecCalls: number of calls made)
    phase,               \* "single" | "again" | "init" | "priority" | "normal"
                         \* | "ordered" | "random" (the scheduler called last)
    sched_pc,            \* "start" | "loop" | "done" | "calls"
    preexisting,         \* history: the reservation list before any run
    decided,             \* history: one <<pass, reservations seen, accepted>> per iteration
    \* ---- get_priority_passes
    cl_passes,           \* the flat list of candidate passes
    cl_priorities,       \* satellite id -> operator-assigned priority (percent)
    cl_favorites,        \* satellite id -> favorite transmitter uuid
    cl_only_priority,    \* the only_priority argument
    cl_min_priority,     \* min_priority (percent)
    cl_priority,         \* returned priority bucket
    cl_normal,           \* returned normal bucket
    cl_pc,               \* "call" | "done"
    \* ---- find_constrained_passes
    fc_azimuth,          \* the satellite's azimuth (degrees) at each instant
    fc_constraints,      \* the constraints dictionary
    fc_found,            \* satellite_passes, as find_passes returned them
    fc_idx,              \* number of passes the for loop has consumed
    fc_satpass,          \* the pass in the pipeline
    fc_stage,            \* "next" | "azimuth" | "separation" | "duration" | "done"
    fc_selected,         \* selected_passes
    \* ---- check_az_in_window called on its own
    aw_azimuth,          \* the azimuth tested (degrees)
    aw_start,            \* start_azimuth
    aw_stop,             \* stop_azimuth
    aw_result,           \* the returned truth value
    aw_pc,               \* "call" | "done"
    \* ---- report_efficiency called on its own
    ef_scheduledpasses,  \* the reservation list reported on
    ef_report,           \* what the report logs
    ef_pc,               \* "call" | "done"
    \* ---- find_passes for one satellite
    fp_args,             \* tmin, tmax, minimum_altitude, min_pass_duration
    fp_date,             \* observer.date, the time the next pass is searched from
    fp_passes,           \* passes, as collected so far
    fp_pc,               \* "load" | "loop" | "returned" | "raised"
    fp_raised,           \* the exception that left find_passes, "" if none
    \* ---- get_active_transmitter_info called on its own
    tx_transmitters,     \* the entries the DB API returns
    tx_band,             \* <<fmin, fmax>>
    tx_result,           \* the returned transmitters_filtered
    tx_pc,               \* "call" before the call, "returned" after it
    \* ---- search_satellites called on its own
    ss_transmitters_receivable,\* dict uuid -> receivable transmitter
    ss_transmitters_stats,\* dict uuid -> statistics
    ss_tles_all,         \* the list of TLEs
    ss_satellites_by_norad_id,\* the catalog, dict norad id -> satellite
    ss_skip_frequency_violators,\* the flag of the same name
    ss_result,           \* the returned list of satellites
    ss_pc,               \* "call" before the call, "returned" after it
    \* ---- get_scheduled_passes_from_network over get_paginated_endpoint
    ob_observations,     \* the station's observations as the API lists them
    ob_page_size,        \* observations per page of the API
    ob_horizon,          \* <<tmin, tmax>>
    ob_fetched,          \* number of observations on the pages fetched so far
    ob_data,             \* data, the list get_paginated_endpoint builds
    ob_pc,               \* "first" | "loop" | "returned" | "raised"
    ob_raised,           \* the exception that left the function, "" if none
    \* ---- schedule_observations_batch and its fall-back
    ba_observations,     \* the batch handed to schedule_observations_batch
    ba_posts,            \* history: the requests posted to /api/observations/, in order
    ba_idx,              \* observations the fall-back loop has consumed
    ba_pc,               \* "batch" | "fallback" | "returned" | "raised"
    ba_raised,           \* the exception that left the function, "" if none
    \* ---- CacheManager and the files of its cache directory
    cm_files,            \* the cache files that exist
    cm_tlast,            \* the time written in the last-update file
    cm_now,              \* datetime.now(), in hours
    cm_loaded,           \* the instance attributes hold data (update() completed in this process)
    cm_last,             \* outcome of the last operation
    cm_downloaded_at,    \* history: time of the last completed download, None after a flush or a deletion
    \* ---- the two sweep loops of constrain_pass_to_az_window, one iteration at a time
    sw_azimuth,          \* the satellite's azimuth at each instant
    sw_window,           \* <<start_azimuth, stop_azimuth>>
    sw_min_pass_duration,\* min_pass_duration
    sw_found,            \* history: the pass as it was handed in
    sw_satpass,          \* the pass, modified in place
    sw_pc                \* "rise" | "set" | "returned" | "rejected"

ovVars == <<ov_satpass, ov_scheduledpasses, ov_wait, ov_result, ov_pc>>
schedVars == <<prioritypasses, normalpasses, passes, scheduledpasses,
               wait_time_seconds, idx, phase, sched_pc, preexisting, decided>>
clVars == <<cl_passes, cl_priorities, cl_favorites, cl_only_priority,
            cl_min_priority, cl_priority, cl_normal, cl_pc>>
fcVars == <<fc_azimuth, fc_constraints, fc_found, fc_idx, fc_satpass, fc_stage,
            fc_selected>>
awVars == <<aw_azimuth, aw_start, aw_stop, aw_result, aw_pc>>
efVars == <<ef_scheduledpasses, ef_report, ef_pc>>
fpVars == <<fp_args, fp_date, fp_passes, fp_pc, fp_raised>>
txVars == <<tx_transmitters, tx_band, tx_result, tx_pc>>
ssVars == <<ss_transmitters_receivable, ss_transmitters_stats, ss_tles_all, ss_satellites_by_norad_id, ss_skip_frequency_violators, ss_result, ss_pc>>
obVars == <<ob_observations, ob_page_size, ob_horizon, ob_fetched, ob_data, ob_pc, ob_raised>>
baVars == <<ba_observations, ba_posts, ba_idx, ba_pc, ba_raised>>
cmVars == <<cm_files, cm_tlast, cm_now, cm_loaded, cm_last, cm_downloaded_at>>
swVars == <<sw_azimuth, sw_window, sw_min_pass_duration, sw_found, sw_satpass, sw_pc>>
vars == <<ovVars, schedVars, clVars, fcVars, awVars, efVars, fpVars, txVars, ssVars, obVars, baVars, cmVars, swVars>>

-----------------------------------------------------------------------------
(* Bounds of the model *)

MaxTime == 3
MaxGuard == 2
MaxReservations == 1
MaxPasses == 2
MaxMainTime == 2
MaxMainPasses == 2
MaxClassifierPasses == 2
MaxPipelineTime == 4
MaxFound == 1
MaxCalls == 2
MaxFindTime == 4
MaxTransmitters == 2
MaxTles == 2
MaxObservationTime == 4
MaxObservations == 3
MaxBatch == 2
MaxClock == 3
MaxSweepTime == 3

Times == 0..MaxTime
Guards == 0..MaxGuard

Min(a, b) == IF a <= b THEN a ELSE b

\* Sequences over S of length lo..hi
SeqsOf(S, lo, hi) == UNION {[1..n -> S] : n \in lo..hi}

\* A pass as the scheduler sees it: rise time, set time, the scheduled flag
\* and the priority the classifier attached.
Pass(tr, ts, scheduled, priority) ==
    [tr |-> tr, ts |-> ts, scheduled |-> scheduled, priority |-> priority]

\* The [rise, set) windows on the time grid, rise < set
Windows == {w \in Times \X Times : w[1] < w[2]}

\* Candidate passes as discovery produces them (scheduled = False)
NewPasses(prios) == {Pass(w[1], w[2], FALSE, p) : w \in Windows, p \in prios}

\* Reservations as get_scheduled_passes_from_network builds them
\* (scheduled = True, priority = 1)
NetworkPasses == {Pass(w[1], w[2], TRUE, 1) : w \in Windows}

\* The same, on the smaller grid of the two-bucket runs; a priority is one of
\* two levels (low, high), enough for the sort to reorder a bucket.
PriorityLevels == {1, 2}
MainWindows == {w \in Windows : w[2] <= MaxMainTime}
MainNewPasses == {Pass(w[1], w[2], FALSE, p) : w \in MainWindows, p \in PriorityLevels}
MainNetworkPasses == {Pass(w[1], w[2], TRUE, 1) : w \in MainWindows}

\* The passes of found that the classification put in one bucket, in order
RECURSIVE Bucket(_, _)
Bucket(found, is_priority) ==
    IF found = <<>> THEN <<>>
    ELSE LET rest == Bucket(Tail(found), is_priority)
         IN  IF Head(found)[2] = is_priority THEN <<Head(found)[1]>> \o rest ELSE rest

-----------------------------------------------------------------------------
(* pass_predictor.overlap *)

\* OverlapOne with the third relation closed at the padded end of the
\* reservation (<= instead of <)
OverlapOneClosedEnd(tr, ts, scheduledpass, wait) ==
    \/ tr >= scheduledpass.tr /\ ts < scheduledpass.ts + wait
    \/ scheduledpass.tr >= tr /\ scheduledpass.ts + wait < ts
    \/ scheduledpass.tr <= tr /\ tr <= scheduledpass.ts + wait
    \/ scheduledpass.tr <= ts /\ ts < scheduledpass.ts + wait

\* OverlapOne with the third relation open at the rise of the reservation
\* (< instead of <=)
OverlapOneOpenStart(tr, ts, scheduledpass, wait) ==
    \/ tr >= scheduledpass.tr /\ ts < scheduledpass.ts + wait
    \/ scheduledpass.tr >= tr /\ scheduledpass.ts + wait < ts
    \/ scheduledpass.tr < tr /\ tr < scheduledpass.ts + wait
    \/ scheduledpass.tr <= ts /\ ts < scheduledpass.ts + wait

\* The body of the for loop of overlap: the four interval relations, with
\* tr, ts the candidate's rise and its wait-inflated set time.
OverlapOne(tr, ts, scheduledpass, wait) ==
    \/ tr >= scheduledpass.tr /\ ts < scheduledpass.ts + wait
    \/ scheduledpass.tr >= tr /\ scheduledpass.ts + wait < ts
    \/ scheduledpass.tr <= tr /\ tr < scheduledpass.ts + wait
    \/ scheduledpass.tr <= ts /\ ts < scheduledpass.ts + wait

\* overlap with the candidate's own set time left as it is (ts = satpass['ts'])
overlapCandidateNotInflated(satpass, reservations, wait) ==
    LET tr == satpass.tr
        ts == satpass.ts
    IN  \E k \in 1..Len(reservations) : OverlapOne(tr, ts, reservations[k], wait)

\* overlap(satpass, scheduledpasses, wait_time_seconds): the loop breaks at
\* the first reservation for which a relation holds.
overlap(satpass, reservations, wait) ==
    LET tr == satpass.tr
        ts == satpass.ts + wait
    IN  \E k \in 1..Len(reservations) : OverlapOne(tr, ts, reservations[k], wait)

\* ---- overlap called on its own, on inputs drawn from the bounded sets
InitOverlap ==
    /\ ov_satpass \in NewPasses({0})
    /\ ov_scheduledpasses \in SeqsOf(NetworkPasses, 0, MaxReservations + 1)
    /\ ov_wait \in Guards
    /\ ov_result = FALSE
    /\ ov_pc = "call"

CallOverlap ==
    /\ ov_pc = "call"
    /\ ov_result' = overlap(ov_satpass, ov_scheduledpasses, ov_wait)
    /\ ov_pc' = "done"
    /\ UNCHANGED <<ov_satpass, ov_scheduledpasses, ov_wait>>

IdleOverlap ==
    /\ ov_satpass = Pass(0, 1, FALSE, 0)
    /\ ov_scheduledpasses = <<>>
    /\ ov_wait = 0
    /\ ov_result = FALSE
    /\ ov_pc = "idle"

-----------------------------------------------------------------------------
(* schedulers.ordered_scheduler and the two runs of the main script *)

\* sorted(bucket, key=lambda satpass: -satpass['priority']): a stable sort,
\* as an insertion after the last element of priority >= the inserted one.
RECURSIVE SortedByPriority(_)
SortedByPriority(bucket) ==
    IF bucket = <<>> THEN <<>>
    ELSE LET n == Len(bucket)
             front == SortedByPriority(SubSeq(bucket, 1, n - 1))
             x == bucket[n]
             k == Cardinality({j \in 1..Len(front) : front[j].priority >= x.priority})
         IN  SubSeq(front, 1, k) \o <<x>> \o SubSeq(front, k + 1, Len(front))

\* ScheduleOne testing the candidate against the first reservation only
ScheduleOneFirstOnly(satpass, reservations, wait) ==
    IF ~overlap(satpass, SubSeq(reservations, 1, Min(1, Len(reservations))), wait)
    THEN Append(reservations, satpass)
    ELSE reservations

\* ScheduleOne marking the pass it accepts as scheduled
ScheduleOneMarking(satpass, reservations, wait) ==
    IF ~overlap(satpass, reservations, wait)
    THEN Append(reservations, [satpass EXCEPT !.scheduled = TRUE])
    ELSE reservations

\* ScheduleOne without the test: every pass is appended
ScheduleOneAlways(satpass, reservations, wait) ==
    Append(reservations, satpass)

\* ScheduleOne putting an accepted pass at the head of the list
ScheduleOnePrepend(satpass, reservations, wait) ==
    IF ~overlap(satpass, reservations, wait)
    THEN <<satpass>> \o reservations
    ELSE reservations

\* ScheduleOne with the test inverted: a pass is appended when it overlaps
ScheduleOneInverted(satpass, reservations, wait) ==
    IF overlap(satpass, reservations, wait)
    THEN Append(reservations, satpass)
    ELSE reservations

\* One iteration of the for loop of ordered_scheduler: the reservation list
\* after satpass has been considered.
ScheduleOne(satpass, reservations, wait) ==
    IF ~overlap(satpass, reservations, wait)
    THEN Append(reservations, satpass)
    ELSE reservations

\* for satpass in passes: one iteration
OrderedSchedulerStep ==
    /\ sched_pc = "loop"
    /\ idx < Len(passes)
    /\ LET satpass == passes[idx + 1]
       IN  /\ scheduledpasses' = ScheduleOne(satpass, scheduledpasses, wait_time_seconds)
           /\ decided' = Append(decided,
                  [satpass |-> satpass, seen |-> scheduledpasses,
                   accepted |-> Len(scheduledpasses') > Len(scheduledpasses),
                   phase |-> phase])
    /\ idx' = idx + 1
    /\ UNCHANGED <<prioritypasses, normalpasses, passes, wait_time_seconds,
                   phase, sched_pc, preexisting>>

\* return scheduledpasses, for a single call of ordered_scheduler
OrderedSchedulerReturn ==
    /\ sched_pc = "loop"
    /\ phase = "single"
    /\ idx = Len(passes)
    /\ sched_pc' = "done"
    /\ UNCHANGED <<prioritypasses, normalpasses, passes, scheduledpasses,
                   wait_time_seconds, idx, phase, preexisting, decided>>

\* ordered_scheduler called again with the same passes on the list the
\* first call returned
StartSecondRun ==
    /\ sched_pc = "loop"
    /\ phase = "single"
    /\ idx = Len(passes)
    /\ idx' = 0
    /\ phase' = "again"
    /\ UNCHANGED <<prioritypasses, normalpasses, passes, scheduledpasses,
                   wait_time_seconds, sched_pc, preexisting, decided>>

\* return scheduledpasses, for the second call
SecondRunReturn ==
    /\ sched_pc = "loop"
    /\ phase = "again"
    /\ idx = Len(passes)
    /\ sched_pc' = "done"
    /\ UNCHANGED <<prioritypasses, normalpasses, passes, scheduledpasses,
                   wait_time_seconds, idx, phase, preexisting, decided>>

\* ---- one call of ordered_scheduler, any input order
InitScheduler ==
    /\ preexisting \in SeqsOf(NetworkPasses, 0, MaxReservations)
    /\ scheduledpasses = preexisting
    /\ passes \in SeqsOf(NewPasses({0}), 0, MaxPasses)
    /\ wait_time_seconds \in Guards
    /\ prioritypasses = <<>>
    /\ normalpasses = <<>>
    /\ idx = 0
    /\ phase = "single"
    /\ sched_pc = "loop"
    /\ decided = <<>>

IdleScheduler ==
    /\ preexisting = <<>>
    /\ scheduledpasses = <<>>
    /\ passes = <<>>
    /\ wait_time_seconds = 0
    /\ prioritypasses = <<>>
    /\ normalpasses = <<>>
    /\ idx = 0
    /\ phase = "idle"
    /\ sched_pc = "idle"
    /\ decided = <<>>

\* ---- any sequence of calls of the two schedulers on one reservation list
\* ordered_scheduler(passes, scheduledpasses, wait_time_seconds) as a whole:
\* the list returned
RECURSIVE ordered_scheduler(_, _, _)
ordered_scheduler(ordered, reservations, wait) ==
    IF ordered = <<>> THEN reservations
    ELSE ordered_scheduler(Tail(ordered), ScheduleOne(Head(ordered), reservations, wait),
                           wait)

\* random.shuffle(passes): any order of the same passes
Shuffles(ordered) ==
    {[k \in 1..Len(ordered) |-> ordered[f[k]]] : f \in Permutations(1..Len(ordered))}

\* The lists of passes a call may be given
CallPasses ==
    SeqsOf({Pass(w[1], w[2], FALSE, 0) : w \in MainWindows}, 0, MaxMainPasses)

InitCalls ==
    /\ preexisting \in SeqsOf(MainNetworkPasses, 0, MaxReservations)
    /\ scheduledpasses = preexisting
    /\ wait_time_seconds \in Guards
    /\ passes = <<>>
    /\ prioritypasses = <<>>
    /\ normalpasses = <<>>
    /\ idx = 0
    /\ phase = "init"
    /\ sched_pc = "calls"
    /\ decided = <<>>

\* scheduledpasses = ordered_scheduler(passes, scheduledpasses, wait_time_seconds);
\* the argument passes is the caller's and is not kept
CallOrderedScheduler ==
    /\ sched_pc = "calls"
    /\ idx < MaxCalls
    /\ \E given \in CallPasses :
          scheduledpasses' = ordered_scheduler(given, scheduledpasses, wait_time_seconds)
    /\ idx' = idx + 1
    /\ phase' = "ordered"
    /\ UNCHANGED <<prioritypasses, normalpasses, passes, wait_time_seconds,
                   sched_pc, preexisting, decided>>

\* scheduledpasses = random_scheduler(passes, scheduledpasses, wait_time_seconds)
CallRandomScheduler ==
    /\ sched_pc = "calls"
    /\ idx < MaxCalls
    /\ \E given \in CallPasses :
          \E shuffled \in Shuffles(given) :
              scheduledpasses' = ordered_scheduler(shuffled, scheduledpasses,
                                                   wait_time_seconds)
    /\ idx' = idx + 1
    /\ phase' = "random"
    /\ UNCHANGED <<prioritypasses, normalpasses, passes, wait_time_seconds,
                   sched_pc, preexisting, decided>>

\* ---- the main script: the priority bucket first, then the normal bucket,
\* both against the same growing reservation list
InitMain ==
    /\ preexisting \in SeqsOf(MainNetworkPasses, 0, MaxReservations)
    /\ scheduledpasses = preexisting
    /\ \E found \in SeqsOf(MainNewPasses \X BOOLEAN, 0, MaxMainPasses) :
          \* the classification loop: one bucket or the other, in input order
          /\ prioritypasses = Bucket(found, TRUE)
          /\ normalpasses = Bucket(found, FALSE)
    /\ wait_time_seconds \in {0, MaxGuard}
    /\ passes = <<>>
    /\ idx = 0
    /\ phase = "init"
    /\ sched_pc = "start"
    /\ decided = <<>>

\* FirstBucket with the normal bucket scheduled first
FirstBucketNormal(priority, normal) == normal

\* The bucket the first call of ordered_scheduler is given
FirstBucket(priority, normal) == priority

\* The bucket the second call of ordered_scheduler is given
SecondBucket(priority, normal) == normal

\* prioritypasses = sorted(...); ordered_scheduler(prioritypasses, scheduledpasses)
StartPriorityScheduler ==
    /\ sched_pc = "start"
    /\ phase = "init"
    /\ passes' = SortedByPriority(FirstBucket(prioritypasses, normalpasses))
    /\ idx' = 0
    /\ phase' = "priority"
    /\ sched_pc' = "loop"
    /\ UNCHANGED <<prioritypasses, normalpasses, scheduledpasses,
                   wait_time_seconds, preexisting, decided>>

\* normalpasses = sorted(...); ordered_scheduler(normalpasses, scheduledpasses)
StartNormalScheduler ==
    /\ sched_pc = "loop"
    /\ phase = "priority"
    /\ idx = Len(passes)
    /\ passes' = SortedByPriority(SecondBucket(prioritypasses, normalpasses))
    /\ idx' = 0
    /\ phase' = "normal"
    /\ UNCHANGED <<prioritypasses, normalpasses, scheduledpasses,
                   wait_time_seconds, sched_pc, preexisting, decided>>

\* the second call returns
MainSchedulerReturn ==
    /\ sched_pc = "loop"
    /\ phase = "normal"
    /\ idx = Len(passes)
    /\ sched_pc' = "done"
    /\ UNCHANGED <<prioritypasses, normalpasses, passes, scheduledpasses,
                   wait_time_seconds, idx, phase, preexisting, decided>>

-----------------------------------------------------------------------------
(* utils.get_priority_passes *)

\* The catalogue the classifier's inputs are drawn from: satellite 1 has two
\* transmitters, satellite 2 has one; only satellite 1 may carry an
\* operator-assigned priority.  Rates and priorities are in percent.
Transmitters == {<<1, "a">>, <<1, "b">>, <<2, "c">>}
Altitudes == {45, 90}
SuccessRates == {50, 100}
GoodCounts == {0, 1, 2}
AssignedPriorities == {40, 80}
MinPriorities == {0, 50, 100}

\* A candidate pass as find_constrained_passes hands it over
ClassifierPasses ==
    {[id |-> t[1], uuid |-> t[2], altt |-> a, success_rate |-> r, good_count |-> g] :
        t \in Transmitters, a \in Altitudes, r \in SuccessRates, g \in GoodCounts}

\* The priority and favorite-transmitter maps read_priorities_transmitters
\* returns: the same keys in both
PriorityFiles ==
    {<<[i \in {} |-> 0], [i \in {} |-> ""]>>} \cup
    {<<[i \in {1} |-> v], [i \in {1} |-> u]>> : v \in AssignedPriorities, u \in {"a", "b"}}

\* A priority is a rational number, kept as numerator and denominator
Ratio(num, den) == [num |-> num, den |-> den]
AtLeastPercent(q, percent) == q.num * 100 >= percent * q.den

Max(S) == CHOOSE x \in S : \A y \in S : y <= x

\* IsPriorityMatch without the favorite-transmitter test
IsPriorityMatchAnyTransmitter(satpass, priorities, favorite_transmitters, min_priority) ==
    /\ satpass.id \in DOMAIN priorities
    /\ priorities[satpass.id] >= min_priority

\* IsPriorityMatch without the test of the priority against min_priority
IsPriorityMatchAnyPriority(satpass, priorities, favorite_transmitters, min_priority) ==
    /\ satpass.id \in DOMAIN priorities
    /\ satpass.uuid = favorite_transmitters[satpass.id]

\* The condition of the if: priority satellite, favorite transmitter,
\* priority high enough
IsPriorityMatch(satpass, priorities, favorite_transmitters, min_priority) ==
    /\ satpass.id \in DOMAIN priorities
    /\ satpass.uuid = favorite_transmitters[satpass.id]
    /\ priorities[satpass.id] >= min_priority

\* max(s['transmitter']['good_count'] for s in passes if same satellite)
MaxGoodCount(satpass, allpasses) ==
    Max({allpasses[k].good_count : k \in {j \in 1..Len(allpasses) : allpasses[j].id = satpass.id}})

\* NormalScore with the largest good_count taken over the passes of every
\* satellite
NormalScoreAnySatellite(satpass, allpasses) ==
    LET max_good_count == Max({allpasses[k].good_count : k \in 1..Len(allpasses)})
    IN  IF max_good_count > 0
        THEN Ratio(satpass.altt * satpass.success_rate * satpass.good_count,
                   90 * 100 * max_good_count)
        ELSE Ratio(satpass.altt * satpass.success_rate, 90 * 100)

\* The score of a pass that is not a priority match:
\* (altt / 90) * success_rate * good_count / max_good_count, the last
\* factor left out when max_good_count is 0
NormalScore(satpass, allpasses) ==
    LET max_good_count == MaxGoodCount(satpass, allpasses)
    IN  IF max_good_count > 0
        THEN Ratio(satpass.altt * satpass.success_rate * satpass.good_count,
                   90 * 100 * max_good_count)
        ELSE Ratio(satpass.altt * satpass.success_rate, 90 * 100)

WithPriority(satpass, priority) ==
    [id |-> satpass.id, uuid |-> satpass.uuid, altt |-> satpass.altt,
     success_rate |-> satpass.success_rate, good_count |-> satpass.good_count,
     priority |-> priority]

\* The two buckets after the first k allpasses of the loop
RECURSIVE Classified(_, _, _, _, _, _)
Classified(k, allpasses, priorities, favorite_transmitters, only_priority, min_priority) ==
    IF k = 0 THEN <<(<<>>), (<<>>)>>
    ELSE LET before == Classified(k - 1, allpasses, priorities, favorite_transmitters,
                                  only_priority, min_priority)
             satpass == allpasses[k]
         IN  IF IsPriorityMatch(satpass, priorities, favorite_transmitters, min_priority)
             THEN <<Append(before[1],
                           WithPriority(satpass, Ratio(priorities[satpass.id], 100))),
                    before[2]>>
             ELSE IF only_priority
             THEN LET score == NormalScore(satpass, allpasses)
                  IN  IF AtLeastPercent(score, min_priority)
                      THEN <<before[1], Append(before[2], WithPriority(satpass, score))>>
                      ELSE before
             ELSE before

get_priority_passes(allpasses, priorities, favorite_transmitters, only_priority, min_priority) ==
    Classified(Len(allpasses), allpasses, priorities, favorite_transmitters, only_priority,
               min_priority)

InitClassifier ==
    /\ cl_passes \in SeqsOf(ClassifierPasses, 0, MaxClassifierPasses)
    /\ \E file \in PriorityFiles : cl_priorities = file[1] /\ cl_favorites = file[2]
    /\ cl_only_priority \in BOOLEAN
    /\ cl_min_priority \in MinPriorities
    /\ cl_priority = <<>>
    /\ cl_normal = <<>>
    /\ cl_pc = "call"

GetPriorityPasses ==
    /\ cl_pc = "call"
    /\ LET buckets == get_priority_passes(cl_passes, cl_priorities, cl_favorites,
                                          cl_only_priority, cl_min_priority)
       IN  cl_priority' = buckets[1] /\ cl_normal' = buckets[2]
    /\ cl_pc' = "done"
    /\ UNCHANGED <<cl_passes, cl_priorities, cl_favorites, cl_only_priority,
                   cl_min_priority>>

IdleClassifier ==
    /\ cl_passes = <<>>
    /\ cl_priorities = <<>>
    /\ cl_favorites = <<>>
    /\ cl_only_priority = FALSE
    /\ cl_min_priority = 0
    /\ cl_priority = <<>>
    /\ cl_normal = <<>>
    /\ cl_pc = "idle"

-----------------------------------------------------------------------------
(* pass_predictor: the constraint pipeline of find_constrained_passes *)

\* One tick of the pipeline's clock is the resolution of the datetime
\* arithmetic and also the step of the azimuth sweep; durations
\* (min_pass_duration, max_pass_duration) are in ticks.
PipelineTimes == 0..MaxPipelineTime
sweep_step_size == 1
num_steps == 127
\* min_separation = 10 radians, in degrees (rounded up)
initial_min_separation == 573

\* '{0:.0f}'.format(math.degrees(az)) is a whole number of degrees in 0..360
Azimuths == {0, 180}
AzimuthWindows == {<<0, 360>>, <<90, 270>>, <<270, 90>>}
MinDurations == {1, 2}
MaxDurations == {1, 2, 3}
\* max_separation = None, "to disable" the angular-separation constraint
None == -1
\* angular_separation = (max_separation, pointing_az, pointing_el), the
\* separation in degrees
AngularSeparations == {<<None, 10>>, <<0, 10>>, <<90, 10>>}

\* x / n for a timedelta x >= 0 and an integer n > 0: Python rounds the
\* quotient to the nearest tick, a half to the even neighbour
DivideAndRound(x, n) ==
    LET q == x \div n
        r == x % n
    IN  IF 2 * r < n THEN q
        ELSE IF 2 * r > n THEN q + 1
        ELSE IF q % 2 = 0 THEN q ELSE q + 1

\* A raw pass of find_passes; rejected marks the None a stage returns
SatPass(tr, tt, ts, td, azr, azs) ==
    [tr |-> tr, tt |-> tt, ts |-> ts, td |-> td, azr |-> azr, azs |-> azs,
     scheduled |-> FALSE, rejected |-> FALSE]

Rejected(satpass) == [satpass EXCEPT !.rejected = TRUE]

\* The test without the detour through the complement
check_az_in_window_no_wrap(azimuth, start_azimuth, stop_azimuth) ==
    start_azimuth <= azimuth /\ azimuth <= stop_azimuth

\* The test with the two ends of the window left out
check_az_in_window_open(azimuth, start_azimuth, stop_azimuth) ==
    LET complementary_window == start_azimuth > stop_azimuth
        lo == IF complementary_window THEN stop_azimuth ELSE start_azimuth
        hi == IF complementary_window THEN start_azimuth ELSE stop_azimuth
    IN  IF lo < azimuth /\ azimuth < hi
        THEN ~complementary_window
        ELSE complementary_window

\* check_az_in_window: a window with start > stop is tested through its
\* complement and the answer inverted
check_az_in_window(azimuth, start_azimuth, stop_azimuth) ==
    LET complementary_window == start_azimuth > stop_azimuth
        lo == IF complementary_window THEN stop_azimuth ELSE start_azimuth
        hi == IF complementary_window THEN start_azimuth ELSE stop_azimuth
    IN  IF lo <= azimuth /\ azimuth <= hi
        THEN ~complementary_window
        ELSE complementary_window

\* The first while loop of constrain_pass_to_az_window, from one iteration
\* on: the pass duration is taken before the rise time is advanced and
\* tested after it.
RECURSIVE RiseSweep(_, _, _, _, _)
RiseSweep(satpass, azimuth, start_azimuth, stop_azimuth, min_pass_duration) ==
    LET azr == azimuth[satpass.tr]
        pass_duration == satpass.ts - satpass.tr
        azr_within_window == check_az_in_window(azr, start_azimuth, stop_azimuth)
        swept == [satpass EXCEPT !.azr = azr,
                      !.tr = IF azr_within_window THEN @ ELSE @ + sweep_step_size]
    IN  IF pass_duration < min_pass_duration THEN Rejected(swept)
        ELSE IF azr_within_window THEN swept
        ELSE RiseSweep(swept, azimuth, start_azimuth, stop_azimuth, min_pass_duration)

\* The second while loop: the set time swept backwards
RECURSIVE SetSweep(_, _, _, _, _)
SetSweep(satpass, azimuth, start_azimuth, stop_azimuth, min_pass_duration) ==
    LET azs == azimuth[satpass.ts]
        azs_within_window == check_az_in_window(azs, start_azimuth, stop_azimuth)
        pass_duration == satpass.ts - satpass.tr
        swept == [satpass EXCEPT !.azs = azs,
                      !.ts = IF azs_within_window THEN @ ELSE @ - sweep_step_size]
    IN  IF pass_duration < min_pass_duration THEN Rejected(swept)
        ELSE IF azs_within_window THEN [swept EXCEPT !.td = pass_duration]
        ELSE SetSweep([swept EXCEPT !.td = pass_duration], azimuth, start_azimuth,
                      stop_azimuth, min_pass_duration)

\* The stage without its second loop: only the rise time is swept
constrain_rise_only(satpass, azimuth, start_azimuth, stop_azimuth, min_pass_duration) ==
    RiseSweep(satpass, azimuth, start_azimuth, stop_azimuth, min_pass_duration)

constrain_pass_to_az_window(satpass, azimuth, start_azimuth, stop_azimuth, min_pass_duration) ==
    LET risen == RiseSweep(satpass, azimuth, start_azimuth, stop_azimuth,
                           min_pass_duration)
    IN  IF risen.rejected THEN risen
        ELSE SetSweep(risen, azimuth, start_azimuth, stop_azimuth, min_pass_duration)

\* ephem.separation of the pointing direction and the satellite, for both
\* on the horizon: the distance of the two azimuths round the circle
Separation(pointing_az, az) ==
    LET d == IF az >= pointing_az THEN az - pointing_az ELSE pointing_az - az
    IN  Min(d, 360 - d)

\* The instants constrain_pass_to_angular_separation samples
SampleTimes(satpass) ==
    {satpass.tr + DivideAndRound(x * (satpass.ts - satpass.tr), num_steps - 1) :
        x \in 0..(num_steps - 1)}

\* The minimum over the samples, starting from initial_min_separation
MinSeparation(satpass, azimuth, pointing_az) ==
    LET seen == {Separation(pointing_az, azimuth[t]) : t \in SampleTimes(satpass)}
                    \cup {initial_min_separation}
    IN  CHOOSE m \in seen : \A x \in seen : m <= x

constrain_pass_to_angular_separation(satpass, azimuth, angular_separation) ==
    LET max_separation == angular_separation[1]
        pointing_az == angular_separation[2]
    IN  IF max_separation # None /\ max_separation # 0   \* "if max_separation:"
           /\ MinSeparation(satpass, azimuth, pointing_az) > max_separation
        THEN Rejected(satpass)
        ELSE satpass

\* The shrink without the test of the horizon: always symmetric
constrain_symmetric_only(satpass, max_duration, tmin, tmax) ==
    IF satpass.td > max_duration
    THEN LET half == DivideAndRound(satpass.td - max_duration, 2)
             ts == satpass.ts - half
             tr == satpass.tr + half
         IN  [satpass EXCEPT !.tr = tr, !.ts = ts, !.td = ts - tr]
    ELSE satpass

constrain_pass_to_max_observation_duration(satpass, max_duration, tmin, tmax) ==
    IF satpass.td > max_duration
    THEN LET half == DivideAndRound(satpass.td - max_duration, 2)
             fits == satpass.tr + half >= tmin /\ satpass.ts - half <= tmax
             ts == IF fits THEN satpass.ts - half ELSE Min(satpass.ts, tmax)
             tr == IF fits THEN satpass.tr + half ELSE ts - max_duration
         IN  [satpass EXCEPT !.tr = tr, !.ts = ts, !.td = ts - tr]
    ELSE satpass

\* What find_passes returns for one satellite: passes in chronological
\* order, each rising at or after the search time and before tmax, with
\* rise < transit < set and a duration above the minimum.
RawPasses(azimuth, tmin, tmax, min_pass_duration) ==
    {SatPass(w[1], w[2], w[3], w[3] - w[1], azimuth[w[1]], azimuth[w[3]]) :
        w \in {v \in PipelineTimes \X PipelineTimes \X PipelineTimes :
                  /\ tmin <= v[1] /\ v[1] < tmax
                  /\ v[1] < v[2] /\ v[2] < v[3]
                  /\ v[3] - v[1] > min_pass_duration}}

Chronological(found) ==
    \A k \in 1..(Len(found) - 1) : found[k].ts < found[k + 1].tr

Constraints ==
    [tmin : {0}, tmax : 1..MaxPipelineTime,
     min_pass_duration : MinDurations, max_pass_duration : MaxDurations,
     azimuth : AzimuthWindows, angular_separation : AngularSeparations]

InitPipeline ==
    /\ fc_azimuth \in [PipelineTimes -> Azimuths]
    /\ fc_constraints \in {c \in Constraints : c.min_pass_duration <= c.max_pass_duration}
    /\ fc_found \in {f \in SeqsOf(RawPasses(fc_azimuth, fc_constraints.tmin,
                                            fc_constraints.tmax,
                                            fc_constraints.min_pass_duration),
                                  0, MaxFound) : Chronological(f)}
    /\ fc_idx = 0
    /\ fc_satpass = SatPass(0, 0, 0, 0, 0, 0)
    /\ fc_stage = "next"
    /\ fc_selected = <<>>

\* for satpass in satellite_passes
NextFoundPass ==
    /\ fc_stage = "next"
    /\ fc_idx < Len(fc_found)
    /\ fc_satpass' = fc_found[fc_idx + 1]
    /\ fc_idx' = fc_idx + 1
    /\ fc_stage' = "azimuth"
    /\ UNCHANGED <<fc_azimuth, fc_constraints, fc_found, fc_selected>>

\* satpass = constrain_pass_to_az_window(...); if not satpass: continue
ConstrainAzimuth ==
    /\ fc_stage = "azimuth"
    /\ fc_satpass' = constrain_pass_to_az_window(fc_satpass, fc_azimuth,
                         fc_constraints.azimuth[1], fc_constraints.azimuth[2],
                         fc_constraints.min_pass_duration)
    /\ fc_stage' = IF fc_satpass'.rejected THEN "next" ELSE "separation"
    /\ UNCHANGED <<fc_azimuth, fc_constraints, fc_found, fc_idx, fc_selected>>

\* satpass = constrain_pass_to_angular_separation(...); if not satpass: continue
ConstrainSeparation ==
    /\ fc_stage = "separation"
    /\ fc_satpass' = constrain_pass_to_angular_separation(fc_satpass, fc_azimuth,
                         fc_constraints.angular_separation)
    /\ fc_stage' = IF fc_satpass'.rejected THEN "next" ELSE "duration"
    /\ UNCHANGED <<fc_azimuth, fc_constraints, fc_found, fc_idx, fc_selected>>

\* satpass = constrain_pass_to_max_observation_duration(...);
\* satpass.update(...); selected_passes.append(satpass)
ConstrainDuration ==
    /\ fc_stage = "duration"
    /\ fc_satpass' = constrain_pass_to_max_observation_duration(fc_satpass,
                         fc_constraints.max_pass_duration, fc_constraints.tmin,
                         fc_constraints.tmax)
    /\ fc_selected' = Append(fc_selected, [fc_satpass' EXCEPT !.scheduled = FALSE])
    /\ fc_stage' = "next"
    /\ UNCHANGED <<fc_azimuth, fc_constraints, fc_found, fc_idx>>

\* return selected_passes
ReturnSelected ==
    /\ fc_stage = "next"
    /\ fc_idx = Len(fc_found)
    /\ fc_stage' = "done"
    /\ UNCHANGED <<fc_azimuth, fc_constraints, fc_found, fc_idx, fc_satpass, fc_selected>>

IdlePipeline ==
    /\ fc_azimuth = <<>>
    /\ fc_constraints = <<>>
    /\ fc_found = <<>>
    /\ fc_idx = 0
    /\ fc_satpass = <<>>
    /\ fc_stage = "idle"
    /\ fc_selected = <<>>

-----------------------------------------------------------------------------
(* pass_predictor.check_az_in_window called on its own *)

\* Azimuths and window ends in degrees: the two ends of the scale, values
\* near them and one in the middle
AzimuthSamples == {0, 5, 10, 180, 350, 360}

InitAzWindow ==
    /\ aw_azimuth \in AzimuthSamples
    /\ aw_start \in AzimuthSamples
    /\ aw_stop \in AzimuthSamples
    /\ aw_result = FALSE
    /\ aw_pc = "call"

CallCheckAzInWindow ==
    /\ aw_pc = "call"
    /\ aw_result' = check_az_in_window(aw_azimuth, aw_start, aw_stop)
    /\ aw_pc' = "done"
    /\ UNCHANGED <<aw_azimuth, aw_start, aw_stop>>

IdleAzWindow ==
    /\ aw_azimuth = 0
    /\ aw_start = 0
    /\ aw_stop = 0
    /\ aw_result = FALSE
    /\ aw_pc = "idle"

-----------------------------------------------------------------------------
(* pass_predictor.find_passes *)

\* One tick of this clock is a minute: min_pass_duration is in minutes and
\* the search resumes one minute after a set time.
FindTimes == 0..MaxFindTime

\* The altitude at culmination next_pass may answer with, in tenths of a
\* degree: well below, just below and well above the minimum altitude
Culminations == {100, 296, 450}

\* format(math.degrees(altt), '.0f') read back by float(): the whole number
\* of degrees nearest to the altitude, a half going to the even neighbour
FormattedDegrees(tenths) == DivideAndRound(tenths, 10)

\* The exceptions a step of the propagator may raise: ephem.readtle on bad
\* or missing elements, compute on elements too old or unusable, next_pass
\* on a body that never rises, on a body that is no satellite, or otherwise
Raises(step) ==
    CASE step = "readtle" -> {"ValueError", "AttributeError"}
      [] step = "compute" -> {"ValueError"}
      [] step = "next_pass" -> {"ValueError", "TypeError", "RuntimeError"}

\* Handled without the last handler of next_pass (except Exception)
HandledWithoutCatchAll(step, raised) ==
    CASE step = "readtle" -> raised \in {"ValueError", "AttributeError"}
      [] step = "compute" -> raised \in {"ValueError"}
      [] step = "next_pass" -> raised \in {"ValueError", "TypeError"}

\* The except clauses round each step: does one of them take the exception?
Handled(step, raised) ==
    CASE step = "readtle" -> raised \in {"ValueError", "AttributeError"}
      [] step = "compute" -> raised \in {"ValueError"}
      [] step = "next_pass" -> \/ raised \in {"ValueError", "TypeError"}
                               \/ TRUE   \* except Exception

\* The passes next_pass may answer with when searched from date: neither
\* the rise nor the set is before the search time; the set may come before
\* the rise (pyephem#105: the set of the pass under way, the rise of the
\* next one).
NextPasses(date) ==
    [tr : {t \in FindTimes : t >= date}, ts : {t \in FindTimes : t >= date},
     altt : Culminations]

\* The test of the if with >= in the place of > for the duration
StoresPassAtMinimum(elevation, tr, ts, minimum_altitude, min_pass_duration) ==
    /\ elevation >= minimum_altitude
    /\ tr < ts
    /\ ts - tr >= min_pass_duration

\* "Store pass only if": the elevation reaches the minimum altitude, the
\* rise is before the set and the pass lasts longer than min_pass_duration
StoresPass(elevation, tr, ts, minimum_altitude, min_pass_duration) ==
    /\ elevation >= minimum_altitude
    /\ tr < ts
    /\ ts - tr > min_pass_duration

InitFindPasses ==
    /\ fp_args \in [tmin : {0}, tmax : FindTimes \ {0},
                    minimum_altitude : {30}, min_pass_duration : {0, 1}]
    /\ fp_date = fp_args.tmin
    /\ fp_passes = <<>>
    /\ fp_pc = "load"
    /\ fp_raised = ""

\* sat_ephem = ephem.readtle(...), with its except clause
LoadTLE ==
    /\ fp_pc = "load"
    /\ \/ fp_pc' = "loop" /\ fp_raised' = ""
       \/ \E raised \in Raises("readtle") :
             IF Handled("readtle", raised)
             THEN fp_pc' = "returned" /\ fp_raised' = ""     \* return []
             ELSE fp_pc' = "raised" /\ fp_raised' = raised
    /\ UNCHANGED <<fp_args, fp_date, fp_passes>>

\* An iteration in which sat_ephem.compute(observer) raises
ComputeFails ==
    /\ fp_pc = "loop"
    /\ \E raised \in Raises("compute") :
          IF Handled("compute", raised)
          THEN fp_pc' = "returned" /\ fp_raised' = ""        \* break
          ELSE fp_pc' = "raised" /\ fp_raised' = raised
    /\ UNCHANGED <<fp_args, fp_date, fp_passes>>

\* An iteration in which observer.next_pass(sat_ephem) raises
NextPassFails ==
    /\ fp_pc = "loop"
    /\ \E raised \in Raises("next_pass") :
          IF Handled("next_pass", raised)
          THEN fp_pc' = "returned" /\ fp_raised' = ""        \* break
          ELSE fp_pc' = "raised" /\ fp_raised' = raised
    /\ UNCHANGED <<fp_args, fp_date, fp_passes>>

\* An iteration in which next_pass answers without a pass: tr is None, or an
\* angle is None and format(math.degrees(...)) raises the TypeError caught
\* there
NoFurtherPass ==
    /\ fp_pc = "loop"
    /\ fp_pc' = "returned"                                   \* break
    /\ UNCHANGED <<fp_args, fp_date, fp_passes, fp_raised>>

\* An iteration in which next_pass answers with a pass
ExaminePass ==
    /\ fp_pc = "loop"
    /\ \E answer \in NextPasses(fp_date) :
          LET elevation == FormattedDegrees(answer.altt)
              pass_duration == answer.ts - answer.tr
          IN  IF ~(answer.tr < fp_args.tmax)
              THEN \* Stop search, end of time range reached
                   /\ fp_pc' = "returned"
                   /\ UNCHANGED <<fp_date, fp_passes>>
              ELSE /\ fp_passes' =
                          IF StoresPass(elevation, answer.tr, answer.ts,
                                        fp_args.minimum_altitude,
                                        fp_args.min_pass_duration)
                          THEN Append(fp_passes,
                                      [tr |-> answer.tr, ts |-> answer.ts,
                                       td |-> pass_duration, altt |-> elevation,
                                       scheduled |-> FALSE])
                          ELSE fp_passes
                   /\ fp_date' = answer.ts + 1
                   /\ fp_pc' = "loop"
    /\ UNCHANGED <<fp_args, fp_raised>>

IdleFindPasses ==
    /\ fp_args = <<>>
    /\ fp_date = 0
    /\ fp_passes = <<>>
    /\ fp_pc = "idle"
    /\ fp_raised = ""

-----------------------------------------------------------------------------
(* schedulers.report_efficiency *)

\* Rise and set times in seconds
EfficiencySeconds == {0, 300, 500, 800, 1000}

EfficiencyPasses ==
    {Pass(w[1], w[2], FALSE, 0) :
        w \in {v \in EfficiencySeconds \X EfficiencySeconds : v[1] < v[2]}}

\* The loop of report_efficiency over the first k entries: the running sum
\* of the durations, the earliest rise time and the latest set time
RECURSIVE EfficiencyLoop(_, _)
EfficiencyLoop(reservations, k) ==
    LET satpass == reservations[k]
    IN  IF k = 1
        THEN [duration_scheduled |-> satpass.ts - satpass.tr,
              tmin |-> satpass.tr, tmax |-> satpass.ts]
        ELSE LET before == EfficiencyLoop(reservations, k - 1)
             IN  [duration_scheduled |-> before.duration_scheduled
                                             + (satpass.ts - satpass.tr),
                  tmin |-> IF satpass.tr < before.tmin THEN satpass.tr ELSE before.tmin,
                  tmax |-> IF satpass.ts > before.tmax THEN satpass.ts ELSE before.tmax]

\* report_efficiency with the span taken from the first entry's rise time to
\* the last entry's set time
report_efficiency_first_to_last(reservations) ==
    IF reservations # <<>>
    THEN LET after == EfficiencyLoop(reservations, Len(reservations))
             duration_total == reservations[Len(reservations)].ts - reservations[1].tr
         IN  [reported |-> TRUE,
              duration_scheduled |-> after.duration_scheduled,
              duration_total |-> duration_total,
              efficency |-> Ratio(100 * after.duration_scheduled, duration_total)]
    ELSE [reported |-> FALSE, duration_scheduled |-> 0, duration_total |-> 0,
          efficency |-> Ratio(0, 1)]

\* What report_efficiency logs: the seconds scheduled, the seconds covered
\* and the efficiency in percent; for an empty list only that no passes
\* were found
report_efficiency(reservations) ==
    IF reservations # <<>>
    THEN LET after == EfficiencyLoop(reservations, Len(reservations))
             duration_total == after.tmax - after.tmin
         IN  [reported |-> TRUE,
              duration_scheduled |-> after.duration_scheduled,
              duration_total |-> duration_total,
              efficency |-> Ratio(100 * after.duration_scheduled, duration_total)]
    ELSE [reported |-> FALSE, duration_scheduled |-> 0, duration_total |-> 0,
          efficency |-> Ratio(0, 1)]

InitEfficiency ==
    /\ ef_scheduledpasses \in SeqsOf(EfficiencyPasses, 0, MaxPasses)
    /\ ef_report = report_efficiency(<<>>)
    /\ ef_pc = "call"

ReportEfficiency ==
    /\ ef_pc = "call"
    /\ ef_report' = report_efficiency(ef_scheduledpasses)
    /\ ef_pc' = "done"
    /\ UNCHANGED ef_scheduledpasses

IdleEfficiency ==
    /\ ef_scheduledpasses = <<>>
    /\ ef_report = report_efficiency(<<>>)
    /\ ef_pc = "idle"

-----------------------------------------------------------------------------
(* satnogs_client.get_active_transmitter_info *)

\* the downlink_low values of the DB's entries: null, 0 and frequencies
\* below, inside, at the upper edge of and above the station's band
DownlinkValues == {None, 0, 400, 435, 470, 500}

\* the (fmin, fmax) pairs the function is called with
Bands == {<<430, 470>>, <<400, 470>>}

\* one entry of /api/transmitters, without its uuid
TransmitterEntries ==
    [status : {"active", "inactive"},
     downlink_low : DownlinkValues,
     norad_cat_id : {None, 25544},
     mode : {"FM"}]

\* the uuids of a page are distinct: entry k of the page carries uuid k
WithUuids(entries) ==
    [k \in 1..Len(entries) |->
        [status |-> entries[k].status,
         downlink_low |-> entries[k].downlink_low,
         norad_cat_id |-> entries[k].norad_cat_id,
         mode |-> entries[k].mode,
         uuid |-> k]]

\* Python's truth value of a JSON number or null
Truthy(value) == value # None /\ value # 0

\* the test of the loop body; fmin < x >= fmax is Python's chained
\* comparison, fmin < x and x >= fmax
IsSelectedTransmitter(entry, fmin, fmax) ==
    /\ Truthy(entry.downlink_low)
    /\ entry.status = "active"
    /\ (fmin < entry.downlink_low /\ entry.downlink_low >= fmax)
    /\ entry.norad_cat_id # None

RECURSIVE get_active_transmitter_info(_, _, _)
get_active_transmitter_info(transmitters, fmin, fmax) ==
    IF transmitters = <<>>
    THEN <<>>
    ELSE LET entry == Head(transmitters)
             rest == get_active_transmitter_info(Tail(transmitters), fmin, fmax)
         IN  IF IsSelectedTransmitter(entry, fmin, fmax)
             THEN <<[norad_cat_id |-> entry.norad_cat_id,
                     uuid |-> entry.uuid,
                     mode |-> entry.mode]>> \o rest
             ELSE rest

InitTransmitters ==
    /\ tx_transmitters \in
           {WithUuids(entries) : entries \in SeqsOf(TransmitterEntries, 0, MaxTransmitters)}
    /\ tx_band \in Bands
    /\ tx_result = <<>>
    /\ tx_pc = "call"

GetActiveTransmitterInfo ==
    /\ tx_pc = "call"
    /\ tx_result' = get_active_transmitter_info(tx_transmitters, tx_band[1], tx_band[2])
    /\ tx_pc' = "returned"
    /\ UNCHANGED <<tx_transmitters, tx_band>>

IdleTransmitters ==
    /\ tx_transmitters = <<>>
    /\ tx_band = <<0, 0>>
    /\ tx_result = <<>>
    /\ tx_pc = "idle"

-----------------------------------------------------------------------------
(* utils.search_satellites *)

\* settings.MAX_NORAD_CAT_ID: the ids from here on are temporary
MAX_NORAD_CAT_ID == 90000

\* an assigned id and a temporary id
NoradIds == {25544, 99999}

\* the uuids of the transmitters, in the order the statistics list them
Uuids == <<"u1", "u2">>
UuidSet == {Uuids[k] : k \in 1..Len(Uuids)}

Modes == {"FM", "FSK 9k6"}

\* str(mode).split()[0]: the mode up to its first whitespace
FirstWord(mode) == IF mode = "FSK 9k6" THEN "FSK" ELSE mode

\* a dict: a function on the set of its keys
Dicts(keys, values) == UNION {[present -> values] : present \in SUBSET keys}

Catalogs == Dicts(NoradIds, [is_frequency_violator : BOOLEAN])
Receivables == Dicts(UuidSet, [norad_cat_id : NoradIds, mode : Modes])
Statistics ==
    Dicts(UuidSet, [success_rate : {50}, good_count : {1}, total_count : {2}])
Tles == [norad_cat_id : NoradIds]

\* Satellite(tle, transmitter)
Satellite(tle, transmitter) ==
    [id |-> tle.norad_cat_id,
     transmitter |-> transmitter.uuid,
     success_rate |-> transmitter.success_rate,
     good_count |-> transmitter.good_count,
     data_count |-> transmitter.data_count,
     mode |-> transmitter.mode]

\* the loop over transmitters_stats.items(), from the k-th uuid on
RECURSIVE TransmittersOfInterest(_, _, _, _)
TransmittersOfInterest(transmitters_receivable, transmitters_stats, alive, k) ==
    IF k > Len(Uuids)
    THEN <<>>
    ELSE LET uuid == Uuids[k]
             rest == TransmittersOfInterest(transmitters_receivable,
                                            transmitters_stats, alive, k + 1)
         IN  IF uuid \notin DOMAIN transmitters_stats
             THEN rest
             ELSE IF uuid \notin DOMAIN transmitters_receivable
             THEN rest
             ELSE IF transmitters_receivable[uuid].norad_cat_id \notin alive
             THEN rest
             ELSE <<[norad_cat_id |-> transmitters_receivable[uuid].norad_cat_id,
                     uuid |-> uuid,
                     success_rate |-> Ratio(transmitters_stats[uuid].success_rate, 100),
                     good_count |-> transmitters_stats[uuid].good_count,
                     data_count |-> transmitters_stats[uuid].total_count,
                     mode |-> FirstWord(transmitters_receivable[uuid].mode)]>> \o rest

\* the inner loop: one Satellite per TLE of the transmitter's satellite
RECURSIVE SatellitesOfTransmitter(_, _)
SatellitesOfTransmitter(transmitter, tles) ==
    IF tles = <<>>
    THEN <<>>
    ELSE IF Head(tles).norad_cat_id = transmitter.norad_cat_id
    THEN <<Satellite(Head(tles), transmitter)>>
             \o SatellitesOfTransmitter(transmitter, Tail(tles))
    ELSE SatellitesOfTransmitter(transmitter, Tail(tles))

RECURSIVE SatellitesOfTransmitters(_, _)
SatellitesOfTransmitters(transmitters, tles) ==
    IF transmitters = <<>>
    THEN <<>>
    ELSE SatellitesOfTransmitter(Head(transmitters), tles)
             \o SatellitesOfTransmitters(Tail(transmitters), tles)

RECURSIVE Filter(_, _)
Filter(keep, list) ==
    IF list = <<>>
    THEN <<>>
    ELSE IF keep[Head(list)]
    THEN <<Head(list)>> \o Filter(keep, Tail(list))
    ELSE Filter(keep, Tail(list))

search_satellites(transmitters_receivable, transmitters_stats, tles_all, satellites_by_norad_id, skip_frequency_violators) ==
    LET norad_cat_ids_alive == DOMAIN satellites_by_norad_id
        norad_cat_ids_of_interest ==
            {transmitters_receivable[uuid].norad_cat_id :
                 uuid \in {u \in DOMAIN transmitters_receivable :
                     transmitters_receivable[u].norad_cat_id \in norad_cat_ids_alive}}
        tles == Filter([entry \in Tles |->
                            entry.norad_cat_id \in norad_cat_ids_of_interest], tles_all)
        transmitters_of_interest ==
            TransmittersOfInterest(transmitters_receivable, transmitters_stats,
                                   norad_cat_ids_alive, 1)
        satellites == SatellitesOfTransmitters(transmitters_of_interest, tles)
    IN  IF skip_frequency_violators
        THEN Filter([sat \in {satellites[k] : k \in 1..Len(satellites)} |->
                        ~satellites_by_norad_id[sat.id].is_frequency_violator],
                    satellites)
        ELSE satellites

InitSearch ==
    /\ ss_transmitters_receivable \in Receivables
    /\ ss_transmitters_stats \in Statistics
    /\ ss_tles_all \in SeqsOf(Tles, 0, MaxTles)
    /\ ss_satellites_by_norad_id \in Catalogs
    /\ ss_skip_frequency_violators \in BOOLEAN
    /\ ss_result = <<>>
    /\ ss_pc = "call"

SearchSatellites ==
    /\ ss_pc = "call"
    /\ ss_result' = search_satellites(ss_transmitters_receivable, ss_transmitters_stats,
                                      ss_tles_all, ss_satellites_by_norad_id,
                                      ss_skip_frequency_violators)
    /\ ss_pc' = "returned"
    /\ UNCHANGED <<ss_transmitters_receivable, ss_transmitters_stats, ss_tles_all,
                   ss_satellites_by_norad_id, ss_skip_frequency_violators>>

IdleSearch ==
    /\ ss_transmitters_receivable = <<>>
    /\ ss_transmitters_stats = <<>>
    /\ ss_tles_all = <<>>
    /\ ss_satellites_by_norad_id = <<>>
    /\ ss_skip_frequency_violators = FALSE
    /\ ss_result = <<>>
    /\ ss_pc = "idle"

-----------------------------------------------------------------------------
(* satnogs_client.get_scheduled_passes_from_network *)

ObservationTimes == 0..MaxObservationTime

\* one observation of /api/observations: start and end parsed to datetimes
Observations ==
    {obs \in [start : ObservationTimes, end : ObservationTimes] : obs.start < obs.end}

\* the order of the API: the most recent observation first, the
\* observations of one station one after the other in time
MostRecentFirst(listing) ==
    \A k \in 1..(Len(listing) - 1) : listing[k + 1].end <= listing[k].start

PageSizes == {1, 2}

\* the satpass filter_callback builds from an observation
NetworkPass(obs) ==
    [tr |-> obs.start,
     ts |-> obs.end,
     td |-> obs.end - obs.start,
     scheduled |-> TRUE,
     priority |-> 1]

\* filter_callback(data) for the horizon (tmin, tmax)
RECURSIVE filter_callback(_, _, _)
filter_callback(data, tmin, tmax) ==
    IF data = <<>>
    THEN <<>>
    ELSE LET satpass == NetworkPass(Head(data))
             rest == filter_callback(Tail(data), tmin, tmax)
         IN  IF satpass.ts > tmin /\ satpass.tr < tmax
             THEN <<satpass>> \o rest
             ELSE rest

\* stop_criterion_callback with tmax in the place of tmin
stop_criterion_before_tmax(data, tmin, tmax) == data[Len(data)].end < tmax

\* stop_criterion_callback(data) for a page that is not empty: data[-1] is
\* the last observation of the page
stop_criterion_callback(data, tmin, tmax) == data[Len(data)].end < tmin

\* the page the API serves after `fetched` observations
NextPage(listing, fetched, size) ==
    SubSeq(listing, fetched + 1, Min(fetched + size, Len(listing)))

\* 'next' in response.links: the API has a further page
HasNextLink(listing, fetched) == fetched < Len(listing)

InitObservations ==
    /\ ob_observations \in
           {listing \in SeqsOf(Observations, 0, MaxObservations) : MostRecentFirst(listing)}
    /\ ob_page_size \in PageSizes
    /\ ob_horizon \in {h \in ObservationTimes \X ObservationTimes : h[1] < h[2]}
    /\ ob_fetched = 0
    /\ ob_data = <<>>
    /\ ob_pc = "first"
    /\ ob_raised = ""

\* the first request: the page is filtered into data; the stop criterion
\* reads data[-1], an IndexError on an empty page
FetchFirstPage ==
    /\ ob_pc = "first"
    /\ LET new_data == NextPage(ob_observations, 0, ob_page_size)
       IN  /\ ob_fetched' = Len(new_data)
           /\ ob_data' = filter_callback(new_data, ob_horizon[1], ob_horizon[2])
           /\ IF new_data = <<>>
              THEN ob_pc' = "raised" /\ ob_raised' = "IndexError"
              ELSE /\ ob_raised' = ""
                   /\ ob_pc' = IF stop_criterion_callback(new_data, ob_horizon[1],
                                                          ob_horizon[2])
                               THEN "returned"
                               ELSE "loop"
    /\ UNCHANGED <<ob_observations, ob_page_size, ob_horizon>>

\* one iteration of the while loop: the next page is filtered into data,
\* the stop criterion breaks out of the loop
FetchNextPage ==
    /\ ob_pc = "loop"
    /\ HasNextLink(ob_observations, ob_fetched)
    /\ LET new_data == NextPage(ob_observations, ob_fetched, ob_page_size)
       IN  /\ ob_fetched' = ob_fetched + Len(new_data)
           /\ ob_data' = ob_data \o filter_callback(new_data, ob_horizon[1], ob_horizon[2])
           /\ ob_pc' = IF stop_criterion_callback(new_data, ob_horizon[1], ob_horizon[2])
                       THEN "returned"
                       ELSE "loop"
    /\ UNCHANGED <<ob_observations, ob_page_size, ob_horizon, ob_raised>>

\* the while condition fails: no further page
ReturnData ==
    /\ ob_pc = "loop"
    /\ ~HasNextLink(ob_observations, ob_fetched)
    /\ ob_pc' = "returned"
    /\ UNCHANGED <<ob_observations, ob_page_size, ob_horizon, ob_fetched, ob_data,
                   ob_raised>>

\* a request fails (raise_for_status, read timeout): APIRequestError, or
\* the error of response.json() when the body of an HTTP error is not JSON
RequestFails ==
    /\ ob_pc \in {"first", "loop"}
    /\ ob_pc = "loop" => HasNextLink(ob_observations, ob_fetched)
    /\ ob_pc' = "raised"
    /\ ob_raised' \in {"APIRequestError", "JSONDecodeError"}
    /\ UNCHANGED <<ob_observations, ob_page_size, ob_horizon, ob_fetched, ob_data>>

IdleObservations ==
    /\ ob_observations = <<>>
    /\ ob_page_size = 0
    /\ ob_horizon = <<0, 0>>
    /\ ob_fetched = 0
    /\ ob_data = <<>>
    /\ ob_pc = "idle"
    /\ ob_raised = ""

-----------------------------------------------------------------------------
(* satnogs_client.schedule_observations_batch and schedule_observation *)

\* the observations of a batch: two passes of one station
BatchObservations ==
    {[ground_station_id |-> 1, transmitter_uuid |-> "u1", start |-> 0, end |-> 1],
     [ground_station_id |-> 1, transmitter_uuid |-> "u2", start |-> 2, end |-> 3]}

\* serialize_observation(satpass): the keys of the scheduling endpoint, the
\* datetimes formatted to the second
serialize_observation(satpass) ==
    [ground_station |-> satpass.ground_station_id,
     transmitter_uuid |-> satpass.transmitter_uuid,
     start |-> satpass.start,
     end |-> satpass.end]

\* what the server may answer to a POST: success, or an HTTP error status
\* with a JSON body naming a permission error, another JSON body, or a body
\* that is not JSON (an error page of a gateway)
Answers == {"ok", "permission error", "other error", "not json"}

\* raise_for_status(): HTTPError for every answer but success
RaisesHTTPError(answer) == answer # "ok"

\* response.json() in the except block: raises on a body that is not JSON
JsonRaises(answer) == answer = "not json"

\* a request as the server receives it
Post(kind, payload, answer) == [kind |-> kind, json |-> payload, answer |-> answer]

InitBatch ==
    /\ ba_observations \in SeqsOf(BatchObservations, 0, MaxBatch)
    /\ ba_posts = <<>>
    /\ ba_idx = 0
    /\ ba_pc = "batch"
    /\ ba_raised = ""

\* the batch POST and what follows it up to the fall-back loop
PostBatch ==
    /\ ba_pc = "batch"
    /\ \E answer \in Answers :
          /\ ba_posts' = Append(ba_posts,
                 Post("batch",
                      [k \in 1..Len(ba_observations) |->
                          serialize_observation(ba_observations[k])],
                      answer))
          /\ IF ~RaisesHTTPError(answer)
             THEN ba_pc' = "returned" /\ ba_raised' = ""
             ELSE IF JsonRaises(answer)
             THEN ba_pc' = "raised" /\ ba_raised' = "JSONDecodeError"
             ELSE ba_pc' = "fallback" /\ ba_raised' = ""
    /\ UNCHANGED <<ba_observations, ba_idx>>

\* one iteration of the fall-back loop: schedule_observation(observation)
ScheduleObservation ==
    /\ ba_pc = "fallback"
    /\ ba_idx < Len(ba_observations)
    /\ \E answer \in Answers :
          /\ ba_posts' = Append(ba_posts,
                 Post("single",
                      <<serialize_observation(ba_observations[ba_idx + 1])>>,
                      answer))
          /\ IF RaisesHTTPError(answer) /\ JsonRaises(answer)
             THEN ba_pc' = "raised" /\ ba_raised' = "JSONDecodeError"
             ELSE ba_pc' = "fallback" /\ ba_raised' = ""
    /\ ba_idx' = ba_idx + 1
    /\ UNCHANGED ba_observations

\* the fall-back loop is exhausted
FallbackReturn ==
    /\ ba_pc = "fallback"
    /\ ba_idx = Len(ba_observations)
    /\ ba_pc' = "returned"
    /\ UNCHANGED <<ba_observations, ba_posts, ba_idx, ba_raised>>

IdleBatch ==
    /\ ba_observations = <<>>
    /\ ba_posts = <<>>
    /\ ba_idx = 0
    /\ ba_pc = "idle"
    /\ ba_raised = ""

-----------------------------------------------------------------------------
(* cache.CacheManager *)

\* the files of CacheManager.__init__
transmitters_file == "transmitters.txt"
transmitters2_file == "transmitters.json"
last_update_file == "last_update.txt"
tles_file == "tles.json"
transmitters_stats_file == "transmitters_stats.json"
satellites_file == "satellites.json"
satellites2_file == "satellites2.json"

CacheFiles ==
    {transmitters_file, transmitters2_file, last_update_file, tles_file,
     transmitters_stats_file, satellites_file, satellites2_file}

\* cache_age, in hours
cache_age == 1

ClockTimes == 0..MaxClock

\* last_update(): the time read from the last-update file, None on IOError
last_update(files, tlast) == IF last_update_file \in files THEN tlast ELSE None

\* update_needed()
update_needed(files, tlast, tnow) ==
    \/ last_update(files, tlast) = None
    \/ tnow - last_update(files, tlast) > cache_age
    \/ \E filename \in {transmitters_file, tles_file, transmitters_stats_file,
                        satellites_file} :
           filename \notin files

\* the four fetches of update(), in order, and the files each writes
Fetches ==
    <<{satellites2_file, satellites_file},   \* fetch_satellites
      {transmitters_stats_file},             \* fetch_transmitters_stats
      {transmitters2_file},                  \* fetch_transmitters_receivable
      {tles_file}>>                          \* fetch_tles

\* the files written by the first n fetches
RECURSIVE FetchedFiles(_)
FetchedFiles(n) == IF n = 0 THEN {} ELSE FetchedFiles(n - 1) \cup Fetches[n]

\* the files the load-from-cache branch of update() opens
LoadedFiles == {satellites_file, transmitters_stats_file, transmitters2_file, tles_file}

InitCache ==
    /\ cm_files = {}
    /\ cm_tlast = None
    /\ cm_now = 0
    /\ cm_loaded = FALSE
    /\ cm_last = "constructed"
    /\ cm_downloaded_at = None

\* update(force) when it downloads: the fetches run in order; a failing
\* fetch ends the process (sys.exit(1)) with the files of the earlier
\* fetches written; after the fourth the time is written
UpdateDownloads ==
    /\ \E force \in BOOLEAN, failing \in 0..Len(Fetches) :
          /\ force \/ update_needed(cm_files, cm_tlast, cm_now)
          /\ IF failing = 0
             THEN /\ cm_files' = cm_files \cup FetchedFiles(Len(Fetches))
                                          \cup {last_update_file}
                  /\ cm_tlast' = cm_now
                  /\ cm_loaded' = TRUE
                  /\ cm_last' = "downloaded"
                  /\ cm_downloaded_at' = cm_now
             ELSE /\ cm_files' = cm_files \cup FetchedFiles(failing - 1)
                  /\ cm_tlast' = cm_tlast
                  /\ cm_loaded' = FALSE
                  /\ cm_last' = "aborted"
                  /\ cm_downloaded_at' = cm_downloaded_at
    /\ UNCHANGED cm_now

\* update() when update_needed() is false: the four files are opened and
\* read; a missing one raises FileNotFoundError
UpdateLoads ==
    /\ ~update_needed(cm_files, cm_tlast, cm_now)
    /\ IF LoadedFiles \subseteq cm_files
       THEN cm_loaded' = TRUE /\ cm_last' = "loaded"
       ELSE cm_loaded' = FALSE /\ cm_last' = "FileNotFoundError"
    /\ UNCHANGED <<cm_files, cm_tlast, cm_now, cm_downloaded_at>>

\* update_transmitters(): writes the transmitters file from the attributes
UpdateTransmitters ==
    /\ cm_loaded
    /\ cm_files' = cm_files \cup {transmitters_file}
    /\ cm_last' = "transmitters"
    /\ UNCHANGED <<cm_tlast, cm_now, cm_loaded, cm_downloaded_at>>

\* flush_cache(): removes every cache file
FlushCache ==
    /\ cm_files' = {}
    /\ cm_last' = "flushed"
    /\ cm_downloaded_at' = None
    /\ UNCHANGED <<cm_tlast, cm_now, cm_loaded>>

\* a single cache file is deleted from outside
DeleteFile ==
    /\ \E filename \in cm_files : cm_files' = cm_files \ {filename}
    /\ cm_last' = "deleted"
    /\ cm_downloaded_at' = None
    /\ UNCHANGED <<cm_tlast, cm_now, cm_loaded>>

\* an hour passes
Tick ==
    /\ cm_now < MaxClock
    /\ cm_now' = cm_now + 1
    /\ UNCHANGED <<cm_files, cm_tlast, cm_loaded, cm_last, cm_downloaded_at>>

IdleCache ==
    /\ cm_files = {}
    /\ cm_tlast = None
    /\ cm_now = 0
    /\ cm_loaded = FALSE
    /\ cm_last = "idle"
    /\ cm_downloaded_at = None

-----------------------------------------------------------------------------
(* pass_predictor.constrain_pass_to_az_window, loop by loop *)

SweepTimes == 0..MaxSweepTime

\* the instants the sweeps may compute the azimuth at: the rise sweep goes
\* at most one step past the set time, the set sweep one step before the rise
SweepSamples == (0 - sweep_step_size)..(MaxSweepTime + sweep_step_size)

SweepMinDurations == {0, 1, 2}

\* the iteration of the first loop that leaves the rise time where it is
RiseIterationStuck(satpass, azr, azr_within_window) ==
    [satpass EXCEPT !.azr = azr]

\* one iteration of the first loop on the pass: the azimuth at rise is
\* stored and the rise time advanced if it is outside the window
RiseIteration(satpass, azr, azr_within_window) ==
    [satpass EXCEPT !.azr = azr,
                    !.tr = IF azr_within_window THEN @ ELSE @ + sweep_step_size]

\* one iteration of the second loop on the pass, without the duration
SetIteration(satpass, azs, azs_within_window) ==
    [satpass EXCEPT !.azs = azs,
                    !.ts = IF azs_within_window THEN @ ELSE @ - sweep_step_size]

InitSweep ==
    /\ sw_azimuth \in [SweepSamples -> Azimuths]
    /\ sw_window \in AzimuthWindows
    /\ sw_min_pass_duration \in SweepMinDurations
    /\ sw_found \in {SatPass(w[1], w[1], w[2], w[2] - w[1], 0, 0) :
                        w \in {v \in SweepTimes \X SweepTimes : v[1] < v[2]}}
    /\ sw_satpass = sw_found
    /\ sw_pc = "rise"

\* while not azr_within_window: one iteration
SweepRise ==
    /\ sw_pc = "rise"
    /\ LET azr == sw_azimuth[sw_satpass.tr]
           pass_duration == sw_satpass.ts - sw_satpass.tr
           azr_within_window == check_az_in_window(azr, sw_window[1], sw_window[2])
       IN  /\ sw_satpass' = RiseIteration(sw_satpass, azr, azr_within_window)
           /\ sw_pc' = IF pass_duration < sw_min_pass_duration THEN "rejected"
                       ELSE IF azr_within_window THEN "set"
                       ELSE "rise"
    /\ UNCHANGED <<sw_azimuth, sw_window, sw_min_pass_duration, sw_found>>

\* while not azs_within_window: one iteration
SweepSet ==
    /\ sw_pc = "set"
    /\ LET azs == sw_azimuth[sw_satpass.ts]
           azs_within_window == check_az_in_window(azs, sw_window[1], sw_window[2])
           pass_duration == sw_satpass.ts - sw_satpass.tr
           swept == SetIteration(sw_satpass, azs, azs_within_window)
       IN  IF pass_duration < sw_min_pass_duration
           THEN sw_satpass' = swept /\ sw_pc' = "rejected"
           ELSE /\ sw_satpass' = [swept EXCEPT !.td = pass_duration]
                /\ sw_pc' = IF azs_within_window THEN "returned" ELSE "set"
    /\ UNCHANGED <<sw_azimuth, sw_window, sw_min_pass_duration, sw_found>>

IdleSweep ==
    /\ sw_azimuth = <<>>
    /\ sw_window = <<0, 0>>
    /\ sw_min_pass_duration = 0
    /\ sw_found = SatPass(0, 0, 0, 0, 0, 0)
    /\ sw_satpass = SatPass(0, 0, 0, 0, 0, 0)
    /\ sw_pc = "idle"

-----------------------------------------------------------------------------
(* Specifications *)

\* overlap as a pure function
InitSpecOverlap ==
    /\ InitOverlap
    /\ IdleScheduler
    /\ IdleClassifier
    /\ IdlePipeline
    /\ IdleAzWindow
    /\ IdleEfficiency
    /\ IdleFindPasses
    /\ IdleTransmitters
    /\ IdleSearch
    /\ IdleObservations
    /\ IdleBatch
    /\ IdleCache
    /\ IdleSweep
NextOverlap == CallOverlap /\ UNCHANGED <<schedVars, clVars, fcVars, awVars, efVars, fpVars, txVars, ssVars, obVars, baVars, cmVars, swVars>>
SpecOverlap == InitSpecOverlap /\ [][NextOverlap]_vars

\* a single run of ordered_scheduler
InitSpecScheduler ==
    /\ IdleOverlap
    /\ InitScheduler
    /\ IdleClassifier
    /\ IdlePipeline
    /\ IdleAzWindow
    /\ IdleEfficiency
    /\ IdleFindPasses
    /\ IdleTransmitters
    /\ IdleSearch
    /\ IdleObservations
    /\ IdleBatch
    /\ IdleCache
    /\ IdleSweep
NextScheduler ==
    \/ OrderedSchedulerStep /\ UNCHANGED <<ovVars, clVars, fcVars, awVars, efVars, fpVars, txVars, ssVars, obVars, baVars, cmVars, swVars>>
    \/ OrderedSchedulerReturn /\ UNCHANGED <<ovVars, clVars, fcVars, awVars, efVars, fpVars, txVars, ssVars, obVars, baVars, cmVars, swVars>>
SpecScheduler == InitSpecScheduler /\ [][NextScheduler]_vars

\* ordered_scheduler run twice on the same passes
InitSpecRerun ==
    /\ IdleOverlap
    /\ InitScheduler
    /\ IdleClassifier
    /\ IdlePipeline
    /\ IdleAzWindow
    /\ IdleEfficiency
    /\ IdleFindPasses
    /\ IdleTransmitters
    /\ IdleSearch
    /\ IdleObservations
    /\ IdleBatch
    /\ IdleCache
    /\ IdleSweep
NextRerun ==
    \/ OrderedSchedulerStep /\ UNCHANGED <<ovVars, clVars, fcVars, awVars, efVars, fpVars, txVars, ssVars, obVars, baVars, cmVars, swVars>>
    \/ StartSecondRun /\ UNCHANGED <<ovVars, clVars, fcVars, awVars, efVars, fpVars, txVars, ssVars, obVars, baVars, cmVars, swVars>>
    \/ SecondRunReturn /\ UNCHANGED <<ovVars, clVars, fcVars, awVars, efVars, fpVars, txVars, ssVars, obVars, baVars, cmVars, swVars>>
SpecRerun == InitSpecRerun /\ [][NextRerun]_vars

\* any sequence of calls of ordered_scheduler and random_scheduler
InitSpecCalls ==
    /\ IdleOverlap
    /\ InitCalls
    /\ IdleClassifier
    /\ IdlePipeline
    /\ IdleAzWindow
    /\ IdleEfficiency
    /\ IdleFindPasses
    /\ IdleTransmitters
    /\ IdleSearch
    /\ IdleObservations
    /\ IdleBatch
    /\ IdleCache
    /\ IdleSweep
NextCalls ==
    \/ CallOrderedScheduler /\ UNCHANGED <<ovVars, clVars, fcVars, awVars, efVars, fpVars, txVars, ssVars, obVars, baVars, cmVars, swVars>>
    \/ CallRandomScheduler /\ UNCHANGED <<ovVars, clVars, fcVars, awVars, efVars, fpVars, txVars, ssVars, obVars, baVars, cmVars, swVars>>
SpecCalls == InitSpecCalls /\ [][NextCalls]_vars

\* the main script's two runs
InitSpecMain ==
    /\ IdleOverlap
    /\ InitMain
    /\ IdleClassifier
    /\ IdlePipeline
    /\ IdleAzWindow
    /\ IdleEfficiency
    /\ IdleFindPasses
    /\ IdleTransmitters
    /\ IdleSearch
    /\ IdleObservations
    /\ IdleBatch
    /\ IdleCache
    /\ IdleSweep
NextMain ==
    \/ StartPriorityScheduler /\ UNCHANGED <<ovVars, clVars, fcVars, awVars, efVars, fpVars, txVars, ssVars, obVars, baVars, cmVars, swVars>>
    \/ OrderedSchedulerStep /\ UNCHANGED <<ovVars, clVars, fcVars, awVars, efVars, fpVars, txVars, ssVars, obVars, baVars, cmVars, swVars>>
    \/ StartNormalScheduler /\ UNCHANGED <<ovVars, clVars, fcVars, awVars, efVars, fpVars, txVars, ssVars, obVars, baVars, cmVars, swVars>>
    \/ MainSchedulerReturn /\ UNCHANGED <<ovVars, clVars, fcVars, awVars, efVars, fpVars, txVars, ssVars, obVars, baVars, cmVars, swVars>>
SpecMain == InitSpecMain /\ [][NextMain]_vars

\* get_priority_passes as a pure function
InitSpecClassifier ==
    /\ IdleOverlap
    /\ IdleScheduler
    /\ InitClassifier
    /\ IdlePipeline
    /\ IdleAzWindow
    /\ IdleEfficiency
    /\ IdleFindPasses
    /\ IdleTransmitters
    /\ IdleSearch
    /\ IdleObservations
    /\ IdleBatch
    /\ IdleCache
    /\ IdleSweep
NextClassifier == GetPriorityPasses /\ UNCHANGED <<ovVars, schedVars, fcVars, awVars, efVars, fpVars, txVars, ssVars, obVars, baVars, cmVars, swVars>>
SpecClassifier == InitSpecClassifier /\ [][NextClassifier]_vars

\* find_constrained_passes for one satellite
InitSpecPipeline ==
    /\ IdleOverlap
    /\ IdleScheduler
    /\ IdleClassifier
    /\ InitPipeline
    /\ IdleAzWindow
    /\ IdleEfficiency
    /\ IdleFindPasses
    /\ IdleTransmitters
    /\ IdleSearch
    /\ IdleObservations
    /\ IdleBatch
    /\ IdleCache
    /\ IdleSweep
NextPipeline ==
    \/ NextFoundPass /\ UNCHANGED <<ovVars, schedVars, clVars, awVars, efVars, fpVars, txVars, ssVars, obVars, baVars, cmVars, swVars>>
    \/ ConstrainAzimuth /\ UNCHANGED <<ovVars, schedVars, clVars, awVars, efVars, fpVars, txVars, ssVars, obVars, baVars, cmVars, swVars>>
    \/ ConstrainSeparation /\ UNCHANGED <<ovVars, schedVars, clVars, awVars, efVars, fpVars, txVars, ssVars, obVars, baVars, cmVars, swVars>>
    \/ ConstrainDuration /\ UNCHANGED <<ovVars, schedVars, clVars, awVars, efVars, fpVars, txVars, ssVars, obVars, baVars, cmVars, swVars>>
    \/ ReturnSelected /\ UNCHANGED <<ovVars, schedVars, clVars, awVars, efVars, fpVars, txVars, ssVars, obVars, baVars, cmVars, swVars>>
SpecPipeline == InitSpecPipeline /\ [][NextPipeline]_vars

\* check_az_in_window as a pure function
InitSpecAzWindow ==
    /\ IdleOverlap
    /\ IdleScheduler
    /\ IdleClassifier
    /\ IdlePipeline
    /\ InitAzWindow
    /\ IdleEfficiency
    /\ IdleFindPasses
    /\ IdleTransmitters
    /\ IdleSearch
    /\ IdleObservations
    /\ IdleBatch
    /\ IdleCache
    /\ IdleSweep
NextAzWindow == CallCheckAzInWindow /\ UNCHANGED <<ovVars, schedVars, clVars, fcVars, efVars, fpVars, txVars, ssVars, obVars, baVars, cmVars, swVars>>
SpecAzWindow == InitSpecAzWindow /\ [][NextAzWindow]_vars

\* report_efficiency as a pure function
InitSpecEfficiency ==
    /\ IdleOverlap
    /\ IdleScheduler
    /\ IdleClassifier
    /\ IdlePipeline
    /\ IdleAzWindow
    /\ InitEfficiency
    /\ IdleFindPasses
    /\ IdleTransmitters
    /\ IdleSearch
    /\ IdleObservations
    /\ IdleBatch
    /\ IdleCache
    /\ IdleSweep
NextEfficiency ==
    ReportEfficiency /\ UNCHANGED <<ovVars, schedVars, clVars, fcVars, awVars, fpVars, txVars, ssVars, obVars, baVars, cmVars, swVars>>
SpecEfficiency == InitSpecEfficiency /\ [][NextEfficiency]_vars

\* find_passes for one satellite, whatever the propagator answers
InitSpecFindPasses ==
    /\ IdleOverlap
    /\ IdleScheduler
    /\ IdleClassifier
    /\ IdlePipeline
    /\ IdleAzWindow
    /\ IdleEfficiency
    /\ InitFindPasses
    /\ IdleTransmitters
    /\ IdleSearch
    /\ IdleObservations
    /\ IdleBatch
    /\ IdleCache
    /\ IdleSweep
NextFindPasses ==
    \/ LoadTLE /\ UNCHANGED <<ovVars, schedVars, clVars, fcVars, awVars, efVars, txVars, ssVars, obVars, baVars, cmVars, swVars>>
    \/ ComputeFails /\ UNCHANGED <<ovVars, schedVars, clVars, fcVars, awVars, efVars, txVars, ssVars, obVars, baVars, cmVars, swVars>>
    \/ NextPassFails /\ UNCHANGED <<ovVars, schedVars, clVars, fcVars, awVars, efVars, txVars, ssVars, obVars, baVars, cmVars, swVars>>
    \/ NoFurtherPass /\ UNCHANGED <<ovVars, schedVars, clVars, fcVars, awVars, efVars, txVars, ssVars, obVars, baVars, cmVars, swVars>>
    \/ ExaminePass /\ UNCHANGED <<ovVars, schedVars, clVars, fcVars, awVars, efVars, txVars, ssVars, obVars, baVars, cmVars, swVars>>
SpecFindPasses == InitSpecFindPasses /\ [][NextFindPasses]_vars

\* get_active_transmitter_info over every page of entries and band
InitSpecTransmitters ==
    /\ IdleOverlap
    /\ IdleScheduler
    /\ IdleClassifier
    /\ IdlePipeline
    /\ IdleAzWindow
    /\ IdleEfficiency
    /\ IdleFindPasses
    /\ InitTransmitters
    /\ IdleSearch
    /\ IdleObservations
    /\ IdleBatch
    /\ IdleCache
    /\ IdleSweep
NextTransmitters ==
    GetActiveTransmitterInfo
        /\ UNCHANGED <<ovVars, schedVars, clVars, fcVars, awVars, efVars, fpVars, ssVars, obVars, baVars, cmVars, swVars>>
SpecTransmitters == InitSpecTransmitters /\ [][NextTransmitters]_vars

\* search_satellites over every combination of its inputs
InitSpecSearch ==
    /\ IdleOverlap
    /\ IdleScheduler
    /\ IdleClassifier
    /\ IdlePipeline
    /\ IdleAzWindow
    /\ IdleEfficiency
    /\ IdleFindPasses
    /\ IdleTransmitters
    /\ InitSearch
    /\ IdleObservations
    /\ IdleBatch
    /\ IdleCache
    /\ IdleSweep
NextSearch ==
    SearchSatellites
        /\ UNCHANGED <<ovVars, schedVars, clVars, fcVars, awVars, efVars, fpVars, txVars, obVars, baVars, cmVars, swVars>>
SpecSearch == InitSpecSearch /\ [][NextSearch]_vars

\* get_scheduled_passes_from_network over every listing, page size and horizon
InitSpecObservations ==
    /\ IdleOverlap
    /\ IdleScheduler
    /\ IdleClassifier
    /\ IdlePipeline
    /\ IdleAzWindow
    /\ IdleEfficiency
    /\ IdleFindPasses
    /\ IdleTransmitters
    /\ IdleSearch
    /\ InitObservations
    /\ IdleBatch
    /\ IdleCache
    /\ IdleSweep
NextObservations ==
    \/ FetchFirstPage /\ UNCHANGED <<ovVars, schedVars, clVars, fcVars, awVars, efVars, fpVars, txVars, ssVars, baVars, cmVars, swVars>>
    \/ FetchNextPage /\ UNCHANGED <<ovVars, schedVars, clVars, fcVars, awVars, efVars, fpVars, txVars, ssVars, baVars, cmVars, swVars>>
    \/ ReturnData /\ UNCHANGED <<ovVars, schedVars, clVars, fcVars, awVars, efVars, fpVars, txVars, ssVars, baVars, cmVars, swVars>>
    \/ RequestFails /\ UNCHANGED <<ovVars, schedVars, clVars, fcVars, awVars, efVars, fpVars, txVars, ssVars, baVars, cmVars, swVars>>
SpecObservations == InitSpecObservations /\ [][NextObservations]_vars

\* schedule_observations_batch over every batch and every answer of the server
InitSpecBatch ==
    /\ IdleOverlap
    /\ IdleScheduler
    /\ IdleClassifier
    /\ IdlePipeline
    /\ IdleAzWindow
    /\ IdleEfficiency
    /\ IdleFindPasses
    /\ IdleTransmitters
    /\ IdleSearch
    /\ IdleObservations
    /\ InitBatch
    /\ IdleCache
    /\ IdleSweep
NextBatch ==
    \/ PostBatch /\ UNCHANGED <<ovVars, schedVars, clVars, fcVars, awVars, efVars, fpVars, txVars, ssVars, obVars, cmVars, swVars>>
    \/ ScheduleObservation /\ UNCHANGED <<ovVars, schedVars, clVars, fcVars, awVars, efVars, fpVars, txVars, ssVars, obVars, cmVars, swVars>>
    \/ FallbackReturn /\ UNCHANGED <<ovVars, schedVars, clVars, fcVars, awVars, efVars, fpVars, txVars, ssVars, obVars, cmVars, swVars>>
SpecBatch == InitSpecBatch /\ [][NextBatch]_vars

\* the life of a cache directory: updates, flushes, deletions and time
InitSpecCache ==
    /\ IdleOverlap
    /\ IdleScheduler
    /\ IdleClassifier
    /\ IdlePipeline
    /\ IdleAzWindow
    /\ IdleEfficiency
    /\ IdleFindPasses
    /\ IdleTransmitters
    /\ IdleSearch
    /\ IdleObservations
    /\ IdleBatch
    /\ InitCache
    /\ IdleSweep
NextCache ==
    \/ UpdateDownloads /\ UNCHANGED <<ovVars, schedVars, clVars, fcVars, awVars, efVars, fpVars, txVars, ssVars, obVars, baVars, swVars>>
    \/ UpdateLoads /\ UNCHANGED <<ovVars, schedVars, clVars, fcVars, awVars, efVars, fpVars, txVars, ssVars, obVars, baVars, swVars>>
    \/ UpdateTransmitters /\ UNCHANGED <<ovVars, schedVars, clVars, fcVars, awVars, efVars, fpVars, txVars, ssVars, obVars, baVars, swVars>>
    \/ FlushCache /\ UNCHANGED <<ovVars, schedVars, clVars, fcVars, awVars, efVars, fpVars, txVars, ssVars, obVars, baVars, swVars>>
    \/ DeleteFile /\ UNCHANGED <<ovVars, schedVars, clVars, fcVars, awVars, efVars, fpVars, txVars, ssVars, obVars, baVars, swVars>>
    \/ Tick /\ UNCHANGED <<ovVars, schedVars, clVars, fcVars, awVars, efVars, fpVars, txVars, ssVars, obVars, baVars, swVars>>
SpecCache == InitSpecCache /\ [][NextCache]_vars

\* constrain_pass_to_az_window as a running program: the loops go on as
\* long as their conditions hold
InitSpecSweep ==
    /\ IdleOverlap
    /\ IdleScheduler
    /\ IdleClassifier
    /\ IdlePipeline
    /\ IdleAzWindow
    /\ IdleEfficiency
    /\ IdleFindPasses
    /\ IdleTransmitters
    /\ IdleSearch
    /\ IdleObservations
    /\ IdleBatch
    /\ IdleCache
    /\ InitSweep
NextSweep ==
    \/ SweepRise /\ UNCHANGED <<ovVars, schedVars, clVars, fcVars, awVars, efVars, fpVars, txVars, ssVars, obVars, baVars, cmVars>>
    \/ SweepSet /\ UNCHANGED <<ovVars, schedVars, clVars, fcVars, awVars, efVars, fpVars, txVars, ssVars, obVars, baVars, cmVars>>
SpecSweep == InitSpecSweep /\ [][NextSweep]_vars /\ WF_vars(NextSweep)

-----------------------------------------------------------------------------
(* Properties of overlap *)

\* The single reservation overlap was called with
TheReservation == ov_scheduledpasses[1]
OverlapReturnedForOne == ov_pc = "done" /\ Len(ov_scheduledpasses) = 1

\* C5: overlap returns false for a candidate and a single reservation that
\* are exactly the guard apart with the candidate first
\* (candidate.set + guard = reservation.rise).
C5_ExactGapCandidateFirst ==
    (OverlapReturnedForOne /\ ov_satpass.ts + ov_wait = TheReservation.tr)
        => ov_result = FALSE

\* C6: overlap returns false for a candidate that rises exactly at the end
\* of the guard-padded reservation (candidate.rise = reservation.set + guard).
C6_ExactGapCandidateLast ==
    (OverlapReturnedForOne /\ ov_satpass.tr = TheReservation.ts + ov_wait)
        => ov_result = FALSE

C6_Witness ==
    /\ OverlapReturnedForOne
    /\ ov_wait > 0
    /\ ov_satpass.tr = TheReservation.ts + ov_wait
    /\ ov_result = FALSE

\* C7 (as claimed): the candidate's set time is compared un-inflated, so for
\* a candidate that ends before the reservation rises the result is the one
\* at guard 0, whatever the guard.  (Stated away from the boundary
\* candidate.set + guard = reservation.rise, which C5 is about.)
C7_ResultIndependentOfGuard ==
    (/\ OverlapReturnedForOne
     /\ ov_satpass.ts < TheReservation.tr
     /\ ov_satpass.ts + ov_wait # TheReservation.tr)
        => ov_result = overlap(ov_satpass, ov_scheduledpasses, 0)

\* C7 (amended): the candidate's set time is inflated by the guard as well:
\* for a candidate that ends before the reservation rises, overlap is false
\* when candidate.set + guard < reservation.rise and true when
\* candidate.set + guard > reservation.rise.
C7_CandidateSetInflated ==
    (OverlapReturnedForOne /\ ov_satpass.ts < TheReservation.tr)
        => /\ ov_satpass.ts + ov_wait < TheReservation.tr => ov_result = FALSE
           /\ ov_satpass.ts + ov_wait > TheReservation.tr => ov_result = TRUE

C7_Witness ==
    /\ OverlapReturnedForOne
    /\ ov_satpass.ts < TheReservation.tr
    /\ ov_satpass.ts + ov_wait > TheReservation.tr
    /\ ov_result = TRUE

\* One interval contains the other: the outer rises no later and sets no
\* earlier than the inner
Contains(outer, inner) == outer.tr <= inner.tr /\ inner.ts <= outer.ts

\* C22: overlap is symmetric under swapping candidate and reservation
\* whenever one of the two intervals contains the other:
\* overlap(a, [b], g) = overlap(b, [a], g) for every guard g >= 0.
C22_SymmetricUnderContainment ==
    (/\ OverlapReturnedForOne
     /\ Contains(ov_satpass, TheReservation) \/ Contains(TheReservation, ov_satpass))
        => ov_result = overlap(TheReservation, <<ov_satpass>>, ov_wait)

\* The [rise, set) intervals of two passes share an instant
ShareAnInstant(a, b) == a.tr < b.ts /\ b.tr < a.ts

\* C31: overlap never misses a real conflict: for every candidate and
\* reservation list (all with rise < set) and every guard >= 0, if the
\* candidate and some reservation share an instant, overlap returns true.
C31_NoMissedConflict ==
    (/\ ov_pc = "done"
     /\ \E k \in 1..Len(ov_scheduledpasses) :
            ShareAnInstant(ov_satpass, ov_scheduledpasses[k]))
        => ov_result = TRUE

-----------------------------------------------------------------------------
(* Properties of ordered_scheduler *)

\* The entries of the reservation list that this run appended
AcceptedPositions == (Len(preexisting) + 1)..Len(scheduledpasses)

\* Two entries are at least the guard apart: of the two, the later-starting
\* one rises no earlier than the other's set time plus the guard.
Separated(a, b, wait) ==
    /\ a.tr <= b.tr => b.tr >= a.ts + wait
    /\ b.tr <= a.tr => a.tr >= b.ts + wait

\* C1: after ordered_scheduler returns, each accepted pass is at least the
\* guard time apart from every other entry of the final reservation list.
C1_AcceptedAreSeparated ==
    sched_pc = "done" =>
        \A i \in AcceptedPositions : \A j \in 1..Len(scheduledpasses) :
            i # j => Separated(scheduledpasses[i], scheduledpasses[j], wait_time_seconds)

\* The reservation list after the first k passes, as the fold the scheduler
\* is specified to be: append iff overlap is false for the list so far.
RECURSIVE Fold(_, _, _)
Fold(ordered, reservations, wait) ==
    IF ordered = <<>> THEN reservations
    ELSE Fold(Tail(ordered),
              IF overlap(Head(ordered), reservations, wait)
              THEN reservations ELSE Append(reservations, Head(ordered)),
              wait)

\* C2, the state part: the passes are consumed in the given order, and the
\* k-th is appended iff overlap is false for the reservation list as it stood
\* then (the pre-existing entries plus the passes accepted before it).
C2_DecisionsInOrder ==
    /\ Len(decided) = idx
    /\ scheduledpasses = Fold(SubSeq(passes, 1, idx), preexisting, wait_time_seconds)
    /\ \A k \in 1..Len(decided) :
          /\ decided[k].satpass = passes[k]
          /\ decided[k].seen = Fold(SubSeq(passes, 1, k - 1), preexisting, wait_time_seconds)
          /\ decided[k].accepted = ~overlap(passes[k], decided[k].seen, wait_time_seconds)

\* C2, the step part: a later pass never changes what was decided for an
\* earlier one, nor the entries already in the reservation list.
C2_DecisionsAreFinal ==
    /\ \A k \in 1..Len(decided) : Len(decided') >= k /\ decided'[k] = decided[k]
    /\ Len(scheduledpasses') >= Len(scheduledpasses)
    /\ SubSeq(scheduledpasses', 1, Len(scheduledpasses)) = scheduledpasses

\* C2: ordered_scheduler processes the passes strictly in the caller's order
\* and appends a pass iff overlap is false for the reservation list at that
\* moment; a later pass never changes an earlier decision.
C2_OrderedFold == []C2_DecisionsInOrder /\ [][C2_DecisionsAreFinal]_vars

\* A run in which a pass was rejected because of a pass accepted earlier in
\* the same run, and a later pass was accepted
C2_Witness ==
    /\ sched_pc = "done"
    /\ Len(decided) >= 2
    /\ \E k \in 1..Len(decided) :
          /\ ~decided[k].accepted
          /\ ~overlap(passes[k], preexisting, wait_time_seconds)

\* C19: the schedule is maximal for the overlap test: every input pass that
\* was not accepted has overlap true, under the same guard, against the
\* reservation list, the final one included.
C19_RejectedStillOverlap ==
    \A k \in 1..Len(decided) :
        ~decided[k].accepted =>
            overlap(decided[k].satpass, scheduledpasses, wait_time_seconds)

\* C19 happens: the run has returned having turned down a pass that is
\* clear of the pre-existing reservations and meets a pass accepted earlier
C19_Witness ==
    /\ sched_pc = "done"
    /\ \E k \in 1..Len(decided) :
          /\ ~decided[k].accepted
          /\ ~overlap(decided[k].satpass, preexisting, wait_time_seconds)
          /\ overlap(decided[k].satpass, scheduledpasses, wait_time_seconds)

\* C18: ordered_scheduler is idempotent: run a second time with the same
\* passes on the reservation list the first run returned, it appends
\* nothing (every pass having rise_time < set_time).
C18_SecondRunAppendsNothing ==
    \A k \in 1..Len(decided) :
        decided[k].phase = "again" =>
            /\ ~decided[k].accepted
            /\ scheduledpasses = decided[k].seen

\* C18 happens: the second run has returned after a first run that
\* accepted one pass and turned another down
C18_Witness ==
    /\ sched_pc = "done"
    /\ phase = "again"
    /\ \E k \in 1..Len(decided) : decided[k].phase = "single" /\ decided[k].accepted
    /\ \E k \in 1..Len(decided) : decided[k].phase = "single" /\ ~decided[k].accepted

\* C20: the reservation list only grows: over any sequence of calls of
\* ordered_scheduler and random_scheduler every reservation that was there
\* and every pass accepted earlier is still there, unmodified and in the
\* same place: the list before a call is a prefix of the list after it.
C20_ListOnlyGrows ==
    [][/\ Len(scheduledpasses') >= Len(scheduledpasses)
       /\ SubSeq(scheduledpasses', 1, Len(scheduledpasses)) = scheduledpasses]_vars

\* C20 happens: after two calls, the second one of random_scheduler, the
\* list is the pre-existing reservation followed by an accepted pass
C20_Witness ==
    /\ idx >= 2
    /\ phase = "random"
    /\ Len(preexisting) >= 1
    /\ Len(scheduledpasses) > Len(preexisting)
    /\ SubSeq(scheduledpasses, 1, Len(preexisting)) = preexisting

\* The entries this run appended, in the order of the list
Appended == SubSeq(scheduledpasses, Len(preexisting) + 1, Len(scheduledpasses))

\* C21: the output of ordered_scheduler is order-stable and one-to-one: the
\* entries it appended are a subsequence of the input passes, in the
\* input's order, and no input pass occurs more than once in the result,
\* even when it occurs twice in the input (every pass having
\* rise_time < set_time).
C21_OrderStableOneToOne ==
    /\ \E at \in [1..Len(Appended) -> 1..Len(passes)] :
          /\ \A j, k \in 1..Len(Appended) : j < k => at[j] < at[k]
          /\ \A k \in 1..Len(Appended) : passes[at[k]] = Appended[k]
    /\ \A i \in 1..Len(passes) :
          Cardinality({k \in 1..Len(scheduledpasses) :
                          scheduledpasses[k] = passes[i]}) <= 1

\* C21 happens: the run has returned on an input that holds the same pass
\* twice, and has appended to the list
C21_Witness ==
    /\ sched_pc = "done"
    /\ \E i, j \in 1..Len(passes) : i < j /\ passes[i] = passes[j]
    /\ \E k \in 1..Len(decided) : decided[k].accepted
    /\ Len(Appended) >= 1

-----------------------------------------------------------------------------
(* Properties of the two runs of the main script *)

\* The priority bucket in the order the first run consumes it
OrderedPriority == SortedByPriority(prioritypasses)

\* The decisions taken so far in one of the two runs
DecidedIn(p) == {k \in 1..Len(decided) : decided[k].phase = p}

\* C3: under the calling convention (priority bucket sorted by descending
\* priority first, normal bucket second, same reservation list) the decision
\* for every priority pass is the one the priority bucket alone determines,
\* whatever the normal bucket holds, and a normal pass that conflicts with an
\* accepted priority pass is never accepted.
C3_PriorityFirst ==
    /\ phase = "priority" =>
          /\ passes = OrderedPriority
          /\ \A i, j \in 1..Len(passes) : i < j => passes[i].priority >= passes[j].priority
    /\ \A k \in DecidedIn("priority") :
          /\ k <= Len(OrderedPriority)
          /\ decided[k].satpass = OrderedPriority[k]
          /\ decided[k].accepted =
                ~overlap(OrderedPriority[k],
                         Fold(SubSeq(OrderedPriority, 1, k - 1), preexisting,
                              wait_time_seconds),
                         wait_time_seconds)
    /\ \A n \in DecidedIn("normal") :
          /\ n > Len(OrderedPriority)
          /\ decided[n].accepted =>
                \A k \in DecidedIn("priority") :
                    decided[k].accepted =>
                        ~overlap(decided[n].satpass, <<decided[k].satpass>>,
                                 wait_time_seconds)

\* Both runs are over; a normal pass that fits the pre-existing reservations
\* was rejected because of an accepted priority pass.
C3_Witness ==
    /\ sched_pc = "done"
    /\ phase = "normal"
    /\ \E n \in DecidedIn("normal"), k \in DecidedIn("priority") :
          /\ decided[k].accepted
          /\ ~decided[n].accepted
          /\ ~overlap(decided[n].satpass, preexisting, wait_time_seconds)
          /\ overlap(decided[n].satpass, <<decided[k].satpass>>, wait_time_seconds)

WasAccepted(decision) == decision.accepted

\* C26: the scheduled flag tells old reservations from new ones through the
\* whole run: the passes of discovery come with scheduled = false, the
\* reservations of the network with scheduled = true, and the scheduler
\* never changes the flag; so the entries of the reservation list with
\* scheduled = false are exactly the passes accepted in this run.
C26_ScheduledFlag ==
    LET accepted == SelectSeq(decided, WasAccepted)
    IN  /\ \A k \in 1..Len(preexisting) :
              scheduledpasses[k] = preexisting[k] /\ scheduledpasses[k].scheduled
        /\ {k \in 1..Len(scheduledpasses) : ~scheduledpasses[k].scheduled}
               = AcceptedPositions
        /\ Len(accepted) = Len(scheduledpasses) - Len(preexisting)
        /\ \A j \in 1..Len(accepted) :
              scheduledpasses[Len(preexisting) + j] = accepted[j].satpass

\* C26 happens: both runs are over, the list holds a reservation of the
\* network and a pass accepted in this run, and a pass was turned down
C26_Witness ==
    /\ sched_pc = "done"
    /\ Len(preexisting) >= 1
    /\ Len(scheduledpasses) > Len(preexisting)
    /\ \E k \in 1..Len(decided) : ~decided[k].accepted

-----------------------------------------------------------------------------
(* Properties of get_priority_passes *)

\* The input pass an entry of a bucket was made from
Classifiee(entry) ==
    [id |-> entry.id, uuid |-> entry.uuid, altt |-> entry.altt,
     success_rate |-> entry.success_rate, good_count |-> entry.good_count]

InBucket(satpass, bucket) == \E k \in 1..Len(bucket) : Classifiee(bucket[k]) = satpass

InputPasses == {cl_passes[k] : k \in 1..Len(cl_passes)}

NotAMatch(satpass) ==
    ~IsPriorityMatch(satpass, cl_priorities, cl_favorites, cl_min_priority)

\* C8: a pass that is not a priority match is dropped from both buckets when
\* only_priority is true, and when only_priority is false it is in the normal
\* bucket iff its score is >= min_priority.
C8_OnlyPriorityDropsNormal ==
    cl_pc = "done" =>
        \A satpass \in InputPasses :
            NotAMatch(satpass) =>
                /\ cl_only_priority =>
                      ~InBucket(satpass, cl_priority) /\ ~InBucket(satpass, cl_normal)
                /\ ~cl_only_priority =>
                      (InBucket(satpass, cl_normal) <=>
                          AtLeastPercent(NormalScore(satpass, cl_passes), cl_min_priority))

\* C9: a pass is in the priority bucket iff its satellite has an assigned
\* priority, its transmitter is that satellite's favorite and the assigned
\* priority is >= min_priority; there it carries the assigned priority,
\* whatever only_priority is.
C9_PriorityBucket ==
    cl_pc = "done" =>
        /\ \A satpass \in InputPasses :
              InBucket(satpass, cl_priority) <=>
                  /\ satpass.id \in DOMAIN cl_priorities
                  /\ satpass.uuid = cl_favorites[satpass.id]
                  /\ cl_priorities[satpass.id] >= cl_min_priority
        /\ \A k \in 1..Len(cl_priority) :
              /\ Classifiee(cl_priority[k]) \in InputPasses
              /\ cl_priority[k].priority = Ratio(cl_priorities[cl_priority[k].id], 100)

\* Two passes of a priority satellite, one on the favorite transmitter and
\* one on another: the first is in the priority bucket, the second is not.
C9_Witness ==
    /\ cl_pc = "done"
    /\ Len(cl_priority) = 1
    /\ \E satpass \in InputPasses :
          /\ satpass.id \in DOMAIN cl_priorities
          /\ satpass.uuid # cl_favorites[satpass.id]
          /\ cl_priorities[satpass.id] >= cl_min_priority

\* The largest good_count among the input passes of a satellite
LargestGoodCount(id) ==
    Max({satpass.good_count : satpass \in {q \in InputPasses : q.id = id}})

\* C23: a pass that is not a priority match is scored
\* (elevation / 90) * success_rate * (good_count / max_good_count), with
\* max_good_count the largest good_count among all candidate passes of the
\* same satellite, the last factor left out when max_good_count is 0 (so
\* nothing is divided by zero); the pass is in the normal bucket only if the
\* score is >= min_priority, and the score lies in [0, 1].
\* (success_rate and min_priority are in percent, the score a fraction.)
C23_NormalScore ==
    cl_pc = "done" =>
        \A k \in 1..Len(cl_normal) :
            LET entry == cl_normal[k]
                score == entry.priority
                largest == LargestGoodCount(entry.id)
            IN  /\ Classifiee(entry) \in InputPasses
                /\ NotAMatch(Classifiee(entry))
                /\ score.den > 0
                /\ largest > 0 =>
                      score.num * (90 * 100 * largest)
                          = entry.altt * entry.success_rate * entry.good_count * score.den
                /\ largest = 0 =>
                      score.num * (90 * 100) = entry.altt * entry.success_rate * score.den
                /\ score.num * 100 >= cl_min_priority * score.den
                /\ 0 <= score.num /\ score.num <= score.den

\* C23 happens: the normal bucket holds a pass whose transmitter has fewer
\* good observations than another transmitter of the same satellite
C23_Witness ==
    /\ cl_pc = "done"
    /\ \E k \in 1..Len(cl_normal) :
          /\ cl_normal[k].good_count > 0
          /\ cl_normal[k].good_count < LargestGoodCount(cl_normal[k].id)

\* The entries of a list at a set of positions, in the order of the list
RECURSIVE SubList(_, _)
SubList(list, positions) ==
    IF list = <<>> THEN <<>>
    ELSE LET n == Len(list)
             front == SubList(SubSeq(list, 1, n - 1), positions \ {n})
         IN  IF n \in positions THEN Append(front, list[n]) ELSE front

\* The input passes the entries of a bucket were made from
Classifiees(bucket) == [k \in 1..Len(bucket) |-> Classifiee(bucket[k])]

\* C37: the two buckets returned by get_priority_passes are disjoint
\* sub-lists of the input in input order (no pass is in both and none is
\* duplicated), and every pass in either bucket carries a
\* priority >= min_priority.
C37_DisjointSubLists ==
    cl_pc = "done" =>
        /\ \E inPriority \in SUBSET (1..Len(cl_passes)) :
           \E inNormal \in SUBSET ((1..Len(cl_passes)) \ inPriority) :
              /\ Classifiees(cl_priority) = SubList(cl_passes, inPriority)
              /\ Classifiees(cl_normal) = SubList(cl_passes, inNormal)
        /\ \A k \in 1..Len(cl_priority) :
              AtLeastPercent(cl_priority[k].priority, cl_min_priority)
        /\ \A k \in 1..Len(cl_normal) :
              AtLeastPercent(cl_normal[k].priority, cl_min_priority)

\* C37 happens: with a positive min_priority each bucket holds one pass
C37_Witness ==
    /\ cl_pc = "done"
    /\ cl_min_priority > 0
    /\ Len(cl_priority) = 1
    /\ Len(cl_normal) = 1

-----------------------------------------------------------------------------
(* Properties of the constraint pipeline *)

\* C4: every pass find_constrained_passes returns has
\* rise_time < transit_time < set_time and duration >= min_pass_duration.
C4_SelectedPassesWellFormed ==
    \A k \in 1..Len(fc_selected) :
        /\ fc_selected[k].tr < fc_selected[k].tt
        /\ fc_selected[k].tt < fc_selected[k].ts
        /\ fc_selected[k].td >= fc_constraints.min_pass_duration

\* C10: constrain_pass_to_max_observation_duration only shortens a pass: the
\* returned rise time is >= the input's and the returned set time is <= the
\* input's.
C10_OnlyShortens ==
    [][fc_stage = "duration" =>
          /\ fc_satpass'.tr >= fc_satpass.tr
          /\ fc_satpass'.ts <= fc_satpass.ts]_vars

\* C11: every pass find_constrained_passes returns lies inside the
\* scheduling horizon: its rise time is >= tmin and its set time is <= tmax
\* (the propagator returning only passes that rise at or after the search
\* time, as RawPasses has it).
C11_InsideHorizon ==
    \A k \in 1..Len(fc_selected) :
        /\ fc_selected[k].tr >= fc_constraints.tmin
        /\ fc_selected[k].ts <= fc_constraints.tmax

\* The last pass taken from fc_found and the pass selected for it, once
\* every pass so far has come through the three stages
LastFound == fc_found[fc_idx]
LastSelected == fc_selected[Len(fc_selected)]
AllSelected == fc_stage = "next" /\ fc_idx > 0 /\ Len(fc_selected) = fc_idx

\* C12: for a pass longer than max_duration, with
\* half = (duration - max_duration) / 2: if rise_time + half >= tmin and
\* set_time - half <= tmax the pass loses half at both ends; otherwise
\* set_time becomes min(set_time, tmax) and rise_time that set_time minus
\* max_duration.  So a pass whose symmetric shrink would end after tmax
\* ends at tmax and starts max_duration before it.
C12_ShrinkOrClamp ==
    [][fc_stage = "duration" /\ fc_satpass.td > fc_constraints.max_pass_duration =>
          LET max_duration == fc_constraints.max_pass_duration
              tmin == fc_constraints.tmin
              tmax == fc_constraints.tmax
              half == DivideAndRound(fc_satpass.td - max_duration, 2)
          IN  /\ (fc_satpass.tr + half >= tmin /\ fc_satpass.ts - half <= tmax) =>
                     /\ fc_satpass'.tr = fc_satpass.tr + half
                     /\ fc_satpass'.ts = fc_satpass.ts - half
              /\ ~(fc_satpass.tr + half >= tmin /\ fc_satpass.ts - half <= tmax) =>
                     /\ fc_satpass'.ts = Min(fc_satpass.ts, tmax)
                     /\ fc_satpass'.tr = fc_satpass'.ts - max_duration
              /\ fc_satpass.ts - half > tmax =>
                     /\ fc_satpass'.ts = tmax
                     /\ fc_satpass'.tr = tmax - max_duration]_vars

\* C12 happens: a pass longer than max_duration whose symmetric shrink would
\* end after tmax has been returned ending at tmax
C12_Witness ==
    /\ AllSelected
    /\ fc_constraints.azimuth = <<0, 360>>
    /\ LastFound.td > fc_constraints.max_pass_duration
    /\ LastFound.ts - DivideAndRound(LastFound.td - fc_constraints.max_pass_duration, 2)
           > fc_constraints.tmax
    /\ LastSelected.ts = fc_constraints.tmax
    /\ LastSelected.tr = fc_constraints.tmax - fc_constraints.max_pass_duration

\* C13: constrain_pass_to_max_observation_duration never rejects; it returns
\* the pass unchanged when its duration is <= max_duration and otherwise a
\* pass whose duration is exactly max_duration; in both cases the returned
\* duration equals set_time - rise_time and is <= max(max_duration, input
\* duration).
C13_DurationExactlyMax ==
    [][fc_stage = "duration" =>
          LET max_duration == fc_constraints.max_pass_duration
          IN  /\ ~fc_satpass'.rejected
              /\ fc_satpass.td <= max_duration => fc_satpass' = fc_satpass
              /\ fc_satpass.td > max_duration => fc_satpass'.td = max_duration
              /\ fc_satpass'.td = fc_satpass'.ts - fc_satpass'.tr
              /\ fc_satpass'.td <= max_duration \/ fc_satpass'.td <= fc_satpass.td]_vars

InWindow(t) ==
    check_az_in_window(fc_azimuth[t], fc_constraints.azimuth[1],
                       fc_constraints.azimuth[2])

\* C16: when constrain_pass_to_az_window returns a pass, its rise time is
\* >= the input's and is the first instant, going forward from the input
\* rise time in steps of one second, whose azimuth is inside the window; its
\* set time is <= the input's and is the last such instant going backward
\* from the input set time; rise_azimuth and set_azimuth are the azimuths at
\* those two instants; and its duration is set_time - rise_time and is
\* >= min_pass_duration.
C16_NarrowedToWindow ==
    [][fc_stage = "azimuth" /\ ~fc_satpass'.rejected =>
          /\ fc_satpass'.tr >= fc_satpass.tr
          /\ InWindow(fc_satpass'.tr)
          /\ \A t \in fc_satpass.tr..(fc_satpass'.tr - 1) : ~InWindow(t)
          /\ fc_satpass'.ts <= fc_satpass.ts
          /\ InWindow(fc_satpass'.ts)
          /\ \A t \in (fc_satpass'.ts + 1)..fc_satpass.ts : ~InWindow(t)
          /\ fc_satpass'.azr = fc_azimuth[fc_satpass'.tr]
          /\ fc_satpass'.azs = fc_azimuth[fc_satpass'.ts]
          /\ fc_satpass'.td = fc_satpass'.ts - fc_satpass'.tr
          /\ fc_satpass'.td >= fc_constraints.min_pass_duration]_vars

\* C16 happens: a pass has come through the azimuth stage with both its
\* rise time and its set time moved
C16_Witness ==
    /\ fc_stage = "separation"
    /\ fc_satpass.tr > LastFound.tr
    /\ fc_satpass.ts < LastFound.ts
    /\ ~InWindow(LastFound.tr)
    /\ ~InWindow(LastFound.ts)

\* C17: for every configured max_separation (one that is not None)
\* constrain_pass_to_angular_separation rejects the pass if and only if the
\* smallest separation over the 127 evenly spaced samples of
\* [rise_time, set_time], both ends included, exceeds max_separation;
\* otherwise it returns the pass with rise_time, set_time and duration as
\* they were.
C17_RejectsIffTooFar ==
    [][fc_stage = "separation" /\ fc_constraints.angular_separation[1] # None =>
          /\ fc_satpass'.rejected <=>
                 MinSeparation(fc_satpass, fc_azimuth,
                               fc_constraints.angular_separation[2])
                     > fc_constraints.angular_separation[1]
          /\ ~fc_satpass'.rejected =>
                 /\ fc_satpass'.tr = fc_satpass.tr
                 /\ fc_satpass'.ts = fc_satpass.ts
                 /\ fc_satpass'.td = fc_satpass.td]_vars

-----------------------------------------------------------------------------
(* Properties of check_az_in_window *)

\* C15: for a window that wraps through north (start > stop)
\* check_az_in_window accepts every azimuth strictly inside the clockwise
\* arc from start to stop (az > start or az < stop) and rejects every
\* azimuth strictly inside the complementary arc (stop < az < start); the
\* window (350, 10) accepts 5 and rejects 180.
C15_WrappingWindow ==
    aw_pc = "done" /\ aw_start > aw_stop =>
        /\ (aw_azimuth > aw_start \/ aw_azimuth < aw_stop) => aw_result
        /\ (aw_stop < aw_azimuth /\ aw_azimuth < aw_start) => ~aw_result
        /\ (aw_start = 350 /\ aw_stop = 10 /\ aw_azimuth = 5) => aw_result
        /\ (aw_start = 350 /\ aw_stop = 10 /\ aw_azimuth = 180) => ~aw_result

\* C15 happens: the window (350, 10) has accepted the azimuth 5
C15_Witness ==
    /\ aw_pc = "done"
    /\ aw_start = 350
    /\ aw_stop = 10
    /\ aw_azimuth = 5
    /\ aw_result

\* C36: check_az_in_window treats the ends of the window the same way
\* whether or not the window wraps through 0 degrees: for every window
\* (start_azimuth, stop_azimuth), an azimuth equal to start_azimuth and an
\* azimuth equal to stop_azimuth are inside the window.
C36_EndpointsInside ==
    (aw_pc = "done" /\ aw_azimuth \in {aw_start, aw_stop}) => aw_result

-----------------------------------------------------------------------------
(* Properties of report_efficiency *)

\* The sum of set time - rise time over a set of positions of a list
RECURSIVE SecondsOver(_, _)
SecondsOver(reservations, positions) ==
    IF positions = {} THEN 0
    ELSE LET k == CHOOSE j \in positions : TRUE
         IN  (reservations[k].ts - reservations[k].tr)
                 + SecondsOver(reservations, positions \ {k})

\* C24: for a non-empty schedule the efficiency report has scheduled_seconds
\* the sum of set_time - rise_time over all entries, span_seconds the latest
\* set_time minus the earliest rise_time and
\* efficiency = 100 * scheduled_seconds / span_seconds, whatever the order
\* of the entries; two passes of 300 s and 200 s spanning 1000 s give 50%.
C24_Efficiency ==
    ef_pc = "done" /\ ef_scheduledpasses # <<>> =>
        LET positions == 1..Len(ef_scheduledpasses)
            scheduled_seconds == SecondsOver(ef_scheduledpasses, positions)
            latest == Max({ef_scheduledpasses[k].ts : k \in positions})
            earliest == -Max({-ef_scheduledpasses[k].tr : k \in positions})
            span_seconds == latest - earliest
        IN  /\ ef_report.reported
            /\ ef_report.duration_scheduled = scheduled_seconds
            /\ ef_report.duration_total = span_seconds
            /\ ef_report.efficency.den > 0
            /\ ef_report.efficency.num * span_seconds
                   = 100 * scheduled_seconds * ef_report.efficency.den
            /\ \A shuffled \in Shuffles(ef_scheduledpasses) :
                   report_efficiency(shuffled) = ef_report
            /\ (scheduled_seconds = 500 /\ span_seconds = 1000) =>
                   ef_report.efficency.num = 50 * ef_report.efficency.den

\* C24 happens: the report for a pass of 200 s listed before a pass of 300 s
\* that rises earlier, spanning 1000 s together, is 50%
C24_Witness ==
    /\ ef_pc = "done"
    /\ ef_scheduledpasses = <<Pass(800, 1000, FALSE, 0), Pass(0, 300, FALSE, 0)>>
    /\ ef_report.efficency.num = 50 * ef_report.efficency.den

-----------------------------------------------------------------------------
(* Properties of find_passes *)

\* C25: a propagation failure never aborts discovery: when the orbital
\* elements cannot be loaded find_passes returns an empty list; when compute
\* or next_pass signals an error or that there is no further pass,
\* enumeration stops and exactly the passes collected before that iteration
\* are returned; no exception leaves find_passes.
C25_FailureEndsEnumeration ==
    [][/\ fp_pc' # "raised"
       /\ fp_raised' = ""
       /\ fp_pc = "load" /\ fp_pc' = "returned" => fp_passes' = <<>>
       /\ fp_pc = "loop" /\ fp_pc' = "returned" => fp_passes' = fp_passes]_vars

\* C25 happens: find_passes has returned the pass it had collected before
\* the iteration that ended the enumeration
C25_Witness ==
    /\ fp_pc = "returned"
    /\ Len(fp_passes) >= 1
    /\ fp_date < fp_args.tmax

\* What C38 says of the list find_passes builds
FoundPassesInOrder(found, args) ==
    /\ \A k \in 1..Len(found) :
          /\ found[k].tr < found[k].ts
          /\ found[k].tr < args.tmax
          /\ found[k].altt >= args.minimum_altitude
          /\ found[k].td = found[k].ts - found[k].tr
          /\ found[k].td > args.min_pass_duration
          /\ found[k].scheduled = FALSE
    /\ \A k \in 1..(Len(found) - 1) : found[k].ts < found[k + 1].tr

-----------------------------------------------------------------------------
(* Properties of get_active_transmitter_info *)

\* the criteria of the function's documentation
InBand(entry, fmin, fmax) ==
    /\ entry.status = "active"
    /\ entry.downlink_low # None
    /\ fmin < entry.downlink_low /\ entry.downlink_low <= fmax
    /\ entry.norad_cat_id # None

\* C27: get_active_transmitter_info(fmin, fmax) returns exactly the
\* transmitters with status 'active', a defined downlink_low with
\* fmin < downlink_low <= fmax and a non-null norad_cat_id: none above fmax
\* is returned, none inside (fmin, fmax] meeting the other criteria is left out.
C27_ExactlyTheBand ==
    tx_pc = "returned" =>
        {tx_result[k].uuid : k \in 1..Len(tx_result)}
            = {tx_transmitters[k].uuid :
                   k \in {j \in 1..Len(tx_transmitters) :
                              InBand(tx_transmitters[j], tx_band[1], tx_band[2])}}

-----------------------------------------------------------------------------
(* Properties of search_satellites *)

\* C28: search_satellites never returns a satellite with a temporary NORAD
\* id: every returned satellite has id < max_norad_cat_id (90000), whatever
\* the receivable transmitters, statistics, TLEs and catalog are.
C28_NoTemporaryNoradId ==
    ss_pc = "returned" =>
        \A k \in 1..Len(ss_result) : ss_result[k].id < MAX_NORAD_CAT_ID

-----------------------------------------------------------------------------
(* Properties of get_scheduled_passes_from_network *)

\* the observations of the listing that intersect the horizon, in API order
RECURSIVE IntersectingHorizon(_, _, _)
IntersectingHorizon(listing, tmin, tmax) ==
    IF listing = <<>>
    THEN <<>>
    ELSE LET obs == Head(listing)
             rest == IntersectingHorizon(Tail(listing), tmin, tmax)
         IN  IF obs.end > tmin /\ obs.start < tmax THEN <<obs>> \o rest ELSE rest

\* C29: get_scheduled_passes_from_network returns exactly the station's
\* observations with end > tmin and start < tmax, in API order, although it
\* stops paginating after the first page whose last observation ended before
\* tmin: with the observations listed most-recent-first none that intersects
\* the horizon is left out and none outside it is returned.
C29_ExactlyTheHorizon ==
    ob_pc = "returned" =>
        LET wanted == IntersectingHorizon(ob_observations, ob_horizon[1], ob_horizon[2])
        IN  /\ Len(ob_data) = Len(wanted)
            /\ \A k \in 1..Len(wanted) :
                  /\ ob_data[k].tr = wanted[k].start
                  /\ ob_data[k].ts = wanted[k].end
                  /\ ob_data[k].scheduled

\* C29 happens: the function returned after the stop criterion ended the
\* pagination before the last page, with observations of the horizon kept
\* and a fetched observation outside it dropped
C29_Witness ==
    /\ ob_pc = "returned"
    /\ ob_fetched < Len(ob_observations)
    /\ Len(ob_data) >= 1
    /\ Len(ob_data) < ob_fetched

\* C39: for a ground station that has no observations yet (the first page
\* of the observations endpoint is empty), get_scheduled_passes_from_network
\* returns an empty list without raising.
C39_EmptyStationReturnsEmpty ==
    (/\ ob_observations = <<>>
     /\ ob_pc \in {"returned", "raised"}
     /\ ob_raised \notin {"APIRequestError", "JSONDecodeError"})   \* the request was answered
        => ob_pc = "returned" /\ ob_data = <<>>

-----------------------------------------------------------------------------
(* Properties of schedule_observations_batch *)

\* C30: if the batch submission fails with an HTTP error, every observation
\* of the batch is then submitted individually, exactly once each and in
\* the original order; an HTTP failure of one individual submission does
\* not prevent the submission of the following ones; if the batch submission
\* succeeds no individual submission is made.
C30_FallbackSubmitsEach ==
    ba_pc \in {"returned", "raised"} =>
        /\ Len(ba_posts) >= 1
        /\ ba_posts[1].kind = "batch"
        /\ IF RaisesHTTPError(ba_posts[1].answer)
           THEN /\ Len(ba_posts) = 1 + Len(ba_observations)
                /\ \A k \in 1..Len(ba_observations) :
                      /\ ba_posts[1 + k].kind = "single"
                      /\ ba_posts[1 + k].json
                             = <<serialize_observation(ba_observations[k])>>
           ELSE Len(ba_posts) = 1

-----------------------------------------------------------------------------
(* Properties of CacheManager *)

\* C32: after update() has completed a download (forced or because
\* update_needed() was true), update_needed() returns false on every later
\* call until cache_age hours have elapsed or flush_cache() is called, so a
\* second update() within cache_age loads from disk.
C32_FreshAfterDownload ==
    (cm_downloaded_at # None /\ cm_now - cm_downloaded_at <= cache_age)
        => ~update_needed(cm_files, cm_tlast, cm_now)

\* C33: whenever update_needed() returns false, every file the
\* load-from-cache branch of update() opens exists, so update() without
\* force never fails on a missing cache file.
C33_LoadFindsItsFiles ==
    ~update_needed(cm_files, cm_tlast, cm_now) => LoadedFiles \subseteq cm_files

\* C34: after an update() that was aborted because one of its four fetches
\* failed, the next update_needed() returns true: a partially refreshed
\* cache is never reported as fresh.
C34_AbortedIsNotFresh ==
    cm_last = "aborted" => update_needed(cm_files, cm_tlast, cm_now)

-----------------------------------------------------------------------------
(* Properties of the sweep loops of constrain_pass_to_az_window *)

\* C35: constrain_pass_to_az_window terminates for every input pass, every
\* window and every azimuth trajectory: if the azimuth never enters the
\* window, the rise sweep (or the set sweep) ends with a rejection once the
\* remaining duration falls below min_pass_duration.
C35_SweepTerminates == <>(sw_pc \in {"returned", "rejected"})

\* C35 happens: the azimuth is outside the window at every instant and the
\* rise sweep ended with a rejection after at least two steps
C35_Witness ==
    /\ sw_pc = "rejected"
    /\ sw_satpass.tr >= sw_found.tr + 2 * sweep_step_size
    /\ \A t \in SweepSamples :
          ~check_az_in_window(sw_azimuth[t], sw_window[1], sw_window[2])

====
